---- MODULE Spec2Model ----
(***************************************************************************)
(* A model of the pyhtmx-gui-client core: the event fan-out (EventSender), *)
(* the Renderer's publication path, the PageGroup list operations, the     *)
(* GUI coordinator and the session liveness sweeper.                       *)
(*                                                                         *)
(* Every specification starts from Init, the state right after the module  *)
(* level objects are constructed, and moves only the variables of the      *)
(* component it is about.                                                  *)
(***************************************************************************)
EXTENDS Integers, Sequences, FiniteSets, TLC

(***************************************************************************)
(* Bounds of the model.                                                    *)
(***************************************************************************)
\* Capacity of a subscriber queue (EventSender(max_size=10) in the code).
MaxSize == 2
\* Number of listen() calls explored.
MaxListeners == 2
\* Number of publications explored.
MaxPub == 4
\* Positions handed to the PageGroup calls range over -1 .. MaxPosition.
MaxPosition == 3
\* Length the active-index stack is explored to.
MaxActive == 2
\* config_data["ping-period"] and config_data["connection-check-wait"], in
\* ticks of the model's clock, and the last tick explored.
PingPeriod == 1
CheckWait == 1
MaxTime == 5
\* Number of frames explored in the Renderer and GUI specifications, and the
\* length the active-index stacks of the GUI specification are explored to.
MaxFrames == 2
MaxGuiActive == 1

None == "None"

\* Session ids handed out by GET / (token_hex(4) in the code).
SessionIds == {"A", "B"}
\* Frames the publishers of the bus specifications send: (event id, data).
EventIds == {"root", "p1"}
\* Threads that call Renderer.update concurrently: the bus receive thread
\* and a status worker (or status timer).
Publishers == {"bus", "status"}

QIds == 1 .. MaxListeners

\* Page ids of one namespace, and the positions the bus sends.
PageIds == {"a", "b", "c"}
Positions == -1 .. MaxPosition

\* Namespaces and pages of the GUI coordinator and of the Renderer, and the
\* positions and attribute values they are called with.
Namespaces == {"n1", "n2"}
GuiPageIds == {"a"}
\* The namespace and the pages of the show and close scenarios.
CloseNamespaces == {"n1"}
ClosePageIds == {"a", "b"}
GuiPositions == {0, 1}
\* The namespaces, pages and positions of the calls made on the Renderer
\* itself.
RendererNamespaces == {"n1"}
RendererPageIds == {"a", "b"}
RendererPositions == {0, 1}
AttributeValues == {"v1"}
\* The formatted text values of an {"inner_content": text} update.
InnerContents == {"18F"}
\* The browsers that come and go while the Renderer and the GUI work.
GuiClients == {"A"}
\* The threads that call the Renderer's show and close: the bus receive
\* thread and the HTTP handlers' thread.
ShowThreads == {"bus", "http"}
\* The three StatusEventHandlers of the StatusHandler.
Handlers == {"speech", "utterance", "spinner"}
\* Frames in flight on the websocket, and status events queued.
MaxInbox == 2
MaxStatus == 1
\* The namespaces and properties of session frames.
SessionNamespaces == {"n1"}
Properties == {"p"}
\* The default max_length of generate_split_utterance.
MaxLength == 60
\* Utterances: at most MaxWords words joined by single spaces, the length
\* of a word drawn from WordLengths.
MaxWords == 3
WordLengths == {1, 29, 30, 59, 60, 61}
\* The width of the significand of a float of the model (53 in the
\* program), and the bits a quotient is extended by before it is rounded.
MantissaBits == 10
GuardBits == 10
\* the float 0.0
Zero == [m |-> 0, e |-> 0]
\* The longest GUIClient._active_skills gets.
MaxSkills == 3
\* process_event calls in one behaviour, and the steps the clock makes
MaxEvents == 2
TimeSteps == {7, 20}
\* what the handling function was last called with: nothing yet
NoHandling == [by |-> "none", handler |-> "none", event |-> "none",
               raised |-> FALSE]

VARIABLES
    \* GUIClient._active_skills
    active_skills,
    \* EventSender._listeners: the queues, by identity, in list order
    listeners,
    \* the content of every queue listen() has created
    queues,
    \* number of queues created so far (queue identities are 1 .. nq)
    nq,
    \* what each /updates stream has taken from its queue, in order
    delivered,
    \* the publications in the order Renderer.update issued them
    published,
    \* Renderer._clients
    clients,
    \* a publisher thread inside EventSender.send: position, reversed
    \* iterator index, message and current listener
    spc, sidx, smsg, scur,
    \* an exception that left EventSender.send (ValueError of list.remove)
    sraised,
    \* one PageGroup: _page_ids, _pages and _active_indexes
    pg,
    \* the first exception a PageGroup call has raised, or None
    pgExc,
    \* the same insert, move and remove calls applied to a plain sequence
    \* with clamped positions
    refIds,
    \* app.sessions: the dict as the list of its entries, in dict order
    sessions,
    \* time(), in ticks
    now,
    \* the check_disconnected thread: its position, the now it read, the
    \* position and the expected size of its dict iterator, its disconnected
    \* list, and the tick its wait began
    swpc, swNow, swPos, swUsed, disconnected, swLast,
    \* per session id: the tick of the last GET / that handed it out (as a
    \* sequence, empty before the first), and whether a ping for it has
    \* arrived since
    getAt, pinged,
    \* the last HTTP request answered: operation, session id, status code,
    \* and a bit that flips with every request
    req,
    \* Renderer._page_stack, Renderer._group_map, Renderer._group_catalog
    page_stack, group_map, group_catalog,
    \* the children of Renderer._root, the container the shown page hangs in
    root_children,
    \* a thread inside a root transition of the Renderer (show or close
    \* followed by update_root): its position and the page update_root
    \* has read
    tpc, tpage,
    \* termination_event of gui_client.py
    terminated,
    \* whether the bus accepts connections (the world, not the program)
    bus_up,
    \* GUIClient.__init__: before or after it ran
    cpc,
    \* GUIClient._ws: "none" for None, "open", or "closed" once close() ran
    ws,
    \* whether announce() has sent the gui.connected message
    announced,
    \* the receive_message thread: "none" when it was not started, "loop" at
    \* the test of its while, "recv" inside self._ws.recv(), "exited"
    rxpc,
    \* the frames the bus has sent and recv() has not returned yet
    inbox,
    \* whether receive_message has logged a frame it could not decode
    rxskipped,
    \* GUIClient._session: per namespace, the set of its properties
    session_mirror,
    \* per StatusEventHandler: its _queue, the position of its
    \* handle_events thread, its _close flag and whether its timer is armed
    statusq, wpc, hclose, htimer,
    \* one call of generate_split_utterance as process_event makes it: the
    \* formatted utterance, the duration, the (piece, duration) pairs it
    \* returned and the persistence delays queued for them
    su_utterance, su_duration, su_split, su_persistence,
    \* the StatusHandler: per StatusEventHandler its _queue, the position
    \* of its handle_events thread ("loop" or "sleep") and the ticks left
    \* of its sleep, the ticks since its thread last called the handling
    \* function and the ticks that call's persistence asks for
    sh_queue, sh_wpc, sh_sleep, sh_since, sh_lastp,
    \* per StatusEventHandler: the ticks since _timestamp was set (-1 when
    \* _timestamp is 0.0), the Timer threads alive, and whether _timer is
    \* None
    sh_timestamp, sh_timers, sh_tnone,
    \* the class of the spinner of the status bar, the last call of the
    \* handling function, and the number of process_event calls so far
    sh_spinner, sh_last, sh_n,
    \* GUIManager._namespaces and GUIManager._catalog
    namespaces, catalog,
    \* the last call of the GUIManager when it is a show: its arguments and
    \* whether it returned without raising after publishing one frame
    \* (NoCall after any other call of the GUIManager)
    call

busVars == <<listeners, queues, nq, delivered, published, clients>>
raceVars == <<spc, sidx, smsg, scur, sraised>>
pgVars == <<pg, pgExc, refIds>>
sessVars == <<sessions, now, swpc, swNow, swPos, swUsed, disconnected,
              swLast, getAt, pinged, req>>

rendVars == <<page_stack, group_map, group_catalog, root_children>>
showVars == <<tpc, tpage>>
clientVars == <<terminated, bus_up, cpc, ws, announced, rxpc, inbox, rxskipped,
                session_mirror, statusq, wpc, hclose, htimer>>
guiVars == <<namespaces, catalog>>
splitVars == <<su_utterance, su_duration, su_split, su_persistence>>
skillVars == <<active_skills>>
statVars == <<sh_queue, sh_wpc, sh_sleep, sh_since, sh_lastp, sh_timestamp,
              sh_timers, sh_tnone, sh_spinner, sh_last, sh_n>>

vars == <<busVars, raceVars, pgVars, sessVars, rendVars, guiVars, showVars,
         clientVars, splitVars, statVars, skillVars, call>>

\* what the actions of one component leave alone
notBus == <<pgVars, sessVars, rendVars, guiVars, showVars, clientVars, splitVars, statVars, skillVars, call>>
notPg == <<busVars, raceVars, sessVars, rendVars, guiVars, showVars, clientVars, splitVars, statVars, skillVars,
          call>>
notSess == <<listeners, queues, nq, delivered, published, raceVars, pgVars,
             rendVars, guiVars, showVars, clientVars, splitVars, statVars, skillVars, call>>
notRend == <<nq, delivered, clients, raceVars, pgVars, sessVars, guiVars, showVars,
            clientVars, splitVars, statVars, skillVars, call>>
notGui == <<nq, delivered, clients, raceVars, pgVars, sessVars, showVars,
           clientVars, splitVars, statVars, skillVars>>

(***************************************************************************)
(* Sequence helpers (Python list semantics).                               *)
(***************************************************************************)
Range(s) == {s[i] : i \in 1 .. Len(s)}

\* list.index(x) + 1, for x in the list
IndexOf(s, x) == CHOOSE i \in 1 .. Len(s) : s[i] = x /\ \A j \in 1 .. (i - 1) : s[j] # x

\* the list without its element at 1-based index i
RemoveAt(s, i) == SubSeq(s, 1, i - 1) \o SubSeq(s, i + 1, Len(s))

\* list.remove(x): drops the first element equal to x (x is in the list)
ListRemove(s, x) == RemoveAt(s, IndexOf(s, x))

\* list.insert(i, x) with Python's 0-based index i, clamped like Python
\* does (negative indexes count from the end)
PyInsert(s, i, x) ==
    LET k0 == IF i < 0 THEN Len(s) + i ELSE i
        k == IF k0 < 0 THEN 0 ELSE IF k0 > Len(s) THEN Len(s) ELSE k0
    IN SubSeq(s, 1, k) \o <<x>> \o SubSeq(s, k + 1, Len(s))

(***************************************************************************)
(* EventSender (src/src/event_sender.py).                                  *)
(***************************************************************************)
\* Queue.put_nowait raises Full when the queue holds maxsize items
Full(q) == Len(q) >= MaxSize

\* next() of reversed(self._listeners): the list reverse iterator yields
\* list[index] while 0 <= index < len(list), read at every step (0-based
\* index idx - 1 here)
HasNext(ls, idx) == idx >= 1 /\ idx <= Len(ls)

\* the body of the loop for one listener: put_nowait, or on Full remove
SendBody(b, l, msg) ==
    IF ~Full(b.qs[l])
    THEN [b EXCEPT !.qs[l] = Append(@, msg)]
    ELSE [b EXCEPT !.ls = ListRemove(@, l)]

\* a forward loop over the list that is being shortened: the element after a
\* removed one is skipped
RECURSIVE ForwardFrom(_, _, _)
ForwardFrom(b, idx, msg) ==
    IF idx >= 1 /\ idx <= Len(b.ls)
    THEN ForwardFrom(SendBody(b, b.ls[idx], msg), idx + 1, msg)
    ELSE b

SendLoopForward(b, idx, msg) == ForwardFrom(b, 1, msg)

\* EventSender.send run to completion from iterator index idx
RECURSIVE SendLoop(_, _, _)
SendLoop(b, idx, msg) ==
    IF HasNext(b.ls, idx)
    THEN SendLoop(SendBody(b, b.ls[idx], msg), idx - 1, msg)
    ELSE b

\* EventSender.send(msg)
send(b, msg) == SendLoop(b, Len(b.ls), msg)

Bus == [ls |-> listeners, qs |-> queues]

(***************************************************************************)
(* Renderer.update (src/src/pyhtmx_gui/renderer.py).                       *)
(***************************************************************************)
\* the SSE message: "event: <id>\ndata: <data>\n\n"; n tells two
\* publications of the same text apart
Frame(n, event_id, data) == [n |-> n, event |-> event_id, data |-> data]

\* Renderer.update(data, event_id) as a step of the whole call
update(data, event_id) ==
    IF clients = <<>> \/ data = None
    THEN UNCHANGED <<listeners, queues, published>>
    ELSE LET msg == Frame(Len(published) + 1, event_id, data)
             b == send(Bus, msg)
         IN /\ listeners' = b.ls
            /\ queues' = b.qs
            /\ published' = Append(published, msg)

\* Renderer.register_client
register_client(client_id) ==
    clients' = IF client_id \in Range(clients) THEN clients
               ELSE Append(clients, client_id)

\* Renderer.deregister
deregister(client_id) ==
    clients' = IF client_id \in Range(clients) THEN ListRemove(clients, client_id)
               ELSE clients

(***************************************************************************)
(* Position checks (src/src/pyhtmx_gui/utils.py).                          *)
(***************************************************************************)
validate_position(position, ub) == 0 <= position /\ position <= ub

Min(a, b) == IF a < b THEN a ELSE b
Max(a, b) == IF a > b THEN a ELSE b

fix_position(position, ub) == Max(Min(position, ub), 0)

(***************************************************************************)
(* PageGroup (src/src/pyhtmx_gui/page_group.py).  A group is a record of   *)
(* its three private attributes; _pages maps a page id to its PageManager, *)
(* kept as the uri and the session data it was constructed with.  An       *)
(* operation gives the group it leaves and the exception it raises.        *)
(***************************************************************************)
EmptyMap == [x \in {} |-> None]

EmptyGroup == [page_ids |-> <<>>, pages |-> EmptyMap, active_indexes |-> <<>>]

MapPut(f, k, v) == [x \in DOMAIN f \cup {k} |-> IF x = k THEN v ELSE f[x]]
MapDel(f, k) == [x \in DOMAIN f \ {k} |-> f[x]]

Result(g, exc) == [g |-> g, exc |-> exc]

num_pages(g) == Len(g.page_ids)

\* PageManager(page_id, uri, session_data) as the group keeps it
PageManager(uri, session_data) == [uri |-> uri, session_data |-> session_data]

\* PageGroup.fix_position(position): insert_page calls it, and the class
\* under src/ does not define it.  It is taken to be the clamp to the nearest
\* bound of the range insert_page has just validated against.
PageGroup_fix_position(g, position) == fix_position(position, num_pages(g) - 1)

\* the page id list insert_page leaves, or None when the call of the
\* undefined self.fix_position raises (resolved = FALSE)
insert_page_ids(g, page_id, position, resolved) ==
    IF page_id \notin Range(g.page_ids)
    THEN IF ~validate_position(position, num_pages(g) - 1)
         THEN IF resolved
              THEN PyInsert(g.page_ids, PageGroup_fix_position(g, position), page_id)
              ELSE None
         ELSE PyInsert(g.page_ids, position, page_id)
    ELSE LET index == IndexOf(g.page_ids, page_id) - 1 IN
         IF index # position
         THEN LET popped == RemoveAt(g.page_ids, index + 1)
                  ub == Len(popped) - 1
                  fixed == IF ~validate_position(position, ub)
                           THEN fix_position(position, ub)
                           ELSE position
              IN PyInsert(popped, fixed, page_id)
         ELSE g.page_ids

\* PageGroup.insert_page.  built: the PageManager constructor returns (it
\* loads the page file and raises when that fails).
insert_page(g, page_id, uri, session_data, position, resolved, built) ==
    LET ids == insert_page_ids(g, page_id, position, resolved) IN
    IF ids = None
    THEN Result(g, "AttributeError")
    ELSE IF ~built
    THEN Result([g EXCEPT !.page_ids = ids], "PageBuildError")
    ELSE Result([g EXCEPT !.page_ids = ids,
                          !.pages = MapPut(@, page_id,
                                           PageManager(uri, session_data))],
                None)

\* PageGroup.get_page_id
get_page_id(g, position) ==
    IF ~validate_position(position, num_pages(g) - 1)
    THEN None
    ELSE g.page_ids[position + 1]

\* PageGroup.remove_page(id) for a position
remove_page(g, id) ==
    LET page_id == get_page_id(g, id) IN
    IF page_id \in Range(g.page_ids)
    THEN IF page_id \in DOMAIN g.pages
         THEN Result([g EXCEPT !.page_ids = ListRemove(@, page_id),
                               !.pages = MapDel(@, page_id)], None)
         ELSE Result([g EXCEPT !.page_ids = ListRemove(@, page_id)], "KeyError")
    ELSE Result(g, None)

\* PageGroup.move_page(id, to_position) for a position
move_page(g, id, to_position) ==
    IF ~validate_position(id, num_pages(g) - 1)
    THEN Result(g, None)
    ELSE LET to == IF ~validate_position(to_position, num_pages(g))
                   THEN fix_position(to_position, num_pages(g))
                   ELSE to_position
             item == g.page_ids[id + 1]
         IN Result([g EXCEPT !.page_ids = PyInsert(RemoveAt(@, id + 1), to, item)],
                   None)

\* deactivate_page dropping the top of the stack
deactivate_page_pop(g) ==
    IF g.active_indexes = <<>>
    THEN g
    ELSE [g EXCEPT !.active_indexes = Tail(@)]

\* PageGroup.deactivate_page
deactivate_page(g) ==
    IF g.active_indexes = <<>>
    THEN g
    ELSE [g EXCEPT !.active_indexes = PyInsert(Tail(@), 1, Head(@))]

\* PageGroup.activate_page(id) for a position (isint) or a page id
activate_page(g, id, isint) ==
    IF isint /\ validate_position(id, num_pages(g) - 1)
    THEN [g EXCEPT !.active_indexes = <<id>> \o @]
    ELSE IF ~isint /\ id \in Range(g.page_ids)
    THEN [g EXCEPT !.active_indexes = <<IndexOf(g.page_ids, id) - 1>> \o @]
    ELSE g

\* PageGroup.get_active_page_id
get_active_page_id(g) ==
    IF g.active_indexes # <<>>
    THEN get_page_id(g, g.active_indexes[1])
    ELSE None

(***************************************************************************)
(* Sessions (src/src/pyhtmx_gui/app.py and the older src/src/app.py).      *)
(***************************************************************************)
\* the factor of wait_time in the eviction test of pyhtmx_gui/app.py (the
\* older app.py has 2 in its place)
GraceFactor == 3

\* the keys of the sessions dict
SessIds(s) == {s[i].id : i \in 1 .. Len(s)}

\* sessions[session_id] = t: a present key keeps its place, a new one is
\* added at the end
SessSet(s, session_id, t) ==
    IF session_id \in SessIds(s)
    THEN [i \in 1 .. Len(s) |-> IF s[i].id = session_id
                                THEN [id |-> session_id, t |-> t] ELSE s[i]]
    ELSE Append(s, [id |-> session_id, t |-> t])

\* del sessions[session_id] for every id of the list ids
SessDel(s, ids) == SelectSeq(s, LAMBDA e : e.id \notin Range(ids))

\* what the HTTP handlers read and write: the sessions dict and the
\* Renderer's client list (through GUIClient.register)
AppState == [sessions |-> sessions, clients |-> clients]

NoRequest == [op |-> None, sid |-> None, status |-> 0, n |-> 0]
Answer(op, session_id, status) ==
    [op |-> op, sid |-> session_id, status |-> status, n |-> 1 - req.n]

\* POST /ping/{session_id}, registering the pinging session as a client too
ping_registering(a, session_id, t) ==
    [a EXCEPT !.sessions = SessSet(@, session_id, t),
              !.clients = IF session_id \in Range(@) THEN @
                          ELSE Append(@, session_id)]

\* POST /ping/{session_id}: sessions[session_id] = now under the lock
ping(a, session_id, t) == [a EXCEPT !.sessions = SessSet(@, session_id, t)]

\* GET /: global_client.register(session_id); the sessions dict is not
\* touched
root(a, session_id) ==
    [a EXCEPT !.clients = IF session_id \in Range(@) THEN @
                          ELSE Append(@, session_id)]

\* the eviction test of check_disconnected
expired(t_now, last_update) == t_now - last_update > PingPeriod + GraceFactor * CheckWait

(***************************************************************************)
(* The Renderer's page registry and page stack                             *)
(* (src/src/pyhtmx_gui/renderer.py).  A Renderer is the record of          *)
(* _page_stack, _group_map and _group_catalog; a page group of the         *)
(* catalog is the record of routes and pages; a page's item collection     *)
(* keeps the page, whether its interaction parameter is registered, and    *)
(* the attribute value of the parameter's target element.                  *)
(***************************************************************************)
\* PageManager.set_route and Page.__init__: the route of a page id
Route(page_id) == "/" \o page_id

\* HTMLTag.to_string() of a page and of the target element of a parameter
to_string(page) == "<div id=" \o page \o ">"
component_to_string(route, value, text) ==
    "<span id=" \o route \o " class=" \o value \o ">" \o text \o "</span>"

\* parameter_id = f"{parameter}-{_id}" for the parameter of a route
ParameterId(route) == "text-" \o route

Last(s) == s[Len(s)]

PageItemCollection(page) ==
    [page |-> page, registered |-> FALSE, value |-> "v0", text |-> ""]

NewRendererGroup == [routes |-> <<>>, pages |-> EmptyMap]

\* PageGroup.validate_position of renderer.py
rg_validate_position(g, position) ==
    LET length == Len(g.routes)
        magnitude == IF position < 0 THEN -position ELSE position
    IN IF magnitude > length THEN Max(Min(position, length), -length) ELSE position

\* PageGroup.insert_page of renderer.py
rg_insert_page(g, route, position, page) ==
    LET routes ==
          IF route \notin Range(g.routes)
          THEN PyInsert(g.routes, rg_validate_position(g, position), route)
          ELSE LET index == IndexOf(g.routes, route) - 1 IN
               IF index # position
               THEN LET popped == [g EXCEPT !.routes = RemoveAt(@, index + 1)]
                    IN PyInsert(popped.routes,
                                rg_validate_position(popped, position), route)
               ELSE g.routes
    IN [routes |-> routes, pages |-> MapPut(g.pages, route, PageItemCollection(page))]

\* PageGroup.get_page of renderer.py
rg_get_page(g, route) ==
    IF route \in DOMAIN g.pages THEN g.pages[route].page ELSE None

\* Renderer.insert
Renderer_insert(r, namespace, route, position, page) ==
    LET cat == IF namespace \in DOMAIN r.group_catalog THEN r.group_catalog
               ELSE MapPut(r.group_catalog, namespace, NewRendererGroup)
    IN [r EXCEPT
          !.page_stack = IF route \notin Range(r.page_stack)
                         THEN PyInsert(r.page_stack, 0, route)
                         ELSE r.page_stack,
          !.group_map = MapPut(r.group_map, route, namespace),
          !.group_catalog = [cat EXCEPT ![namespace] =
                                 rg_insert_page(@, route, position, page)]]

\* Renderer.show up to its call of update_root
Renderer_show(r, namespace, route, page) ==
    IF route \in Range(r.page_stack) /\ route # Last(r.page_stack)
    THEN [r EXCEPT !.page_stack = Append(ListRemove(@, route), route)]
    ELSE IF route \notin Range(r.page_stack)
    THEN Renderer_insert([r EXCEPT !.page_stack = Append(@, route)],
                         namespace, route, 0, page)
    ELSE r

\* the page update_root attaches to the root: "unknown" when the route has
\* no valid namespace, None when the group has no page for the route or the
\* page it has is None
root_page(r) ==
    LET route == Last(r.page_stack)
        namespace == IF route \in DOMAIN r.group_map THEN r.group_map[route]
                     ELSE "unknown"
    IN IF namespace \notin DOMAIN r.group_catalog
       THEN "unknown"
       ELSE rg_get_page(r.group_catalog[namespace], route)

\* Renderer.update_root: the data it hands to update, None when it returns
\* or raises before (page.to_string() of None raises AttributeError)
update_root(r) ==
    IF root_page(r) \in {"unknown", None} THEN None ELSE to_string(root_page(r))

update_root_exc(r) == IF root_page(r) = None THEN "AttributeError" ELSE None

\* Renderer.update_root, its work on the root container: the children are
\* detached and the page is added, unless it returns before
attach_root(r) ==
    IF root_page(r) = "unknown" THEN r ELSE [r EXCEPT !.root = <<root_page(r)>>]

\* Renderer.close up to its call of update_root (route is None when the
\* caller gives none): the Renderer it leaves and whether it goes on to
\* update_root.  list.insert(-1, x) puts x before the last element.
Renderer_close(r, route) ==
    LET target == IF route = None THEN Last(r.page_stack) ELSE route IN
    IF r.page_stack = <<>> \/ target # Last(r.page_stack)
    THEN [r |-> r, updates |-> FALSE]
    ELSE LET popped == RemoveAt(r.page_stack, Len(r.page_stack))
         IN [r |-> [r EXCEPT !.page_stack = PyInsert(popped, -1, Last(r.page_stack))],
             updates |-> TRUE]

\* Renderer.register_interaction_parameter, through add_to_page_group and
\* PageGroup.add_to_page
register_interaction_parameter(r, namespace, route) ==
    IF namespace \notin DOMAIN r.group_catalog
    THEN r
    ELSE IF route \notin DOMAIN r.group_catalog[namespace].pages
    THEN r
    ELSE [r EXCEPT !.group_catalog[namespace].pages[route].registered = TRUE]

\* Renderer.update_attributes: the Renderer it leaves and the data it hands
\* to update (None when it does not call update or calls it with None).
\* attribute is None for the empty dict, a text of InnerContents for the
\* dict {"inner_content": text}, and the value of the one attribute
\* otherwise.  The published data is picked by the truth of the dict the
\* caller handed in, not of the dict left after inner_content was popped.
update_attributes(r, route, attribute) ==
    LET namespace == IF route \in DOMAIN r.group_map THEN r.group_map[route]
                     ELSE "unknown"
    IN IF namespace \notin DOMAIN r.group_catalog
       THEN [r |-> r, data |-> None]
       ELSE IF route \notin DOMAIN r.group_catalog[namespace].pages
       THEN [r |-> r, data |-> None]
       ELSE IF ~r.group_catalog[namespace].pages[route].registered
       THEN [r |-> r, data |-> None]
       ELSE IF attribute = None
       THEN [r |-> r, data |-> None]
       ELSE IF attribute \in InnerContents
       THEN [r |-> [r EXCEPT !.group_catalog[namespace].pages[route].text = attribute],
             data |-> component_to_string(
                 route, r.group_catalog[namespace].pages[route].value, attribute)]
       ELSE [r |-> [r EXCEPT !.group_catalog[namespace].pages[route].value = attribute],
             data |-> component_to_string(
                 route, attribute, r.group_catalog[namespace].pages[route].text)]

\* Renderer.__init__: the status bar is inserted at position 0
InitRenderer ==
    Renderer_insert([page_stack |-> <<>>, group_map |-> EmptyMap,
                     group_catalog |-> EmptyMap, root |-> <<>>],
                    "status-ns", Route("status"), 0, "status")

TheRenderer == [page_stack |-> page_stack, group_map |-> group_map,
                group_catalog |-> group_catalog, root |-> root_children]

\* the record of the last call
NoCall == [op |-> None, ns |-> None, id |-> -1, done |-> FALSE]
Called(op, namespace, id, exc, pub) ==
    [op |-> op, ns |-> namespace, id |-> id, done |-> exc = None /\ pub = 1]

\* the number of frames update(data, event_id) publishes
Publishes(data) == IF clients = <<>> \/ data = None THEN 0 ELSE 1

(***************************************************************************)
(* The GUI coordinator (src/src/pyhtmx_gui/gui_manager.py): the list of    *)
(* namespaces, most recently activated first, and the catalog of           *)
(* PageGroups.                                                             *)
(***************************************************************************)
get_active_namespace(nss) == IF nss = <<>> THEN None ELSE Head(nss)

\* GUIManager.activate_namespace
activate_namespace(nss, namespace) ==
    <<namespace>> \o (IF namespace \in Range(nss) THEN ListRemove(nss, namespace)
                      ELSE nss)

\* GUIManager.insert_namespace
insert_namespace(g, namespace, position) ==
    LET rest == IF namespace \in Range(g.namespaces)
                THEN ListRemove(g.namespaces, namespace) ELSE g.namespaces
        fixed == IF ~validate_position(position, Len(rest))
                 THEN fix_position(position, Len(rest)) ELSE position
    IN [namespaces |-> PyInsert(rest, fixed, namespace),
        catalog |-> IF namespace \in DOMAIN g.catalog THEN g.catalog
                    ELSE MapPut(g.catalog, namespace, EmptyGroup)]

\* GUIManager.activate_page
GUIManager_activate_page(g, namespace, id) ==
    IF namespace \notin DOMAIN g.catalog
    THEN g
    ELSE [namespaces |-> activate_namespace(g.namespaces, namespace),
          catalog |-> [g.catalog EXCEPT ![namespace] = activate_page(@, id, TRUE)]]

\* GUIManager.show hands namespace and page_id to Renderer.show, which
\* takes namespace, route and page: the call as the Renderer's signature
\* asks for it, with the route of the page id and the page of its
\* PageManager (None when the group has none for it).
GUIManager_renderer_show(g, r, namespace, page_id) ==
    Renderer_show(r, namespace, Route(page_id),
                  IF page_id \in DOMAIN g.catalog[namespace].pages
                  THEN page_id ELSE None)

\* GUIManager.show(namespace, id) for a position id: the Renderer it
\* leaves, the data handed to update, and the exception.  glued = FALSE is
\* the call as written: Renderer.show has no parameter page_id and raises
\* TypeError.
GUIManager_show(g, r, namespace, id, glued) ==
    IF namespace \notin DOMAIN g.catalog
    THEN [r |-> r, data |-> None, exc |-> "KeyError"]
    ELSE LET page_id == get_page_id(g.catalog[namespace], id) IN
         IF ~glued \/ page_id = None
         THEN [r |-> r, data |-> None, exc |-> "TypeError"]
         ELSE LET r1 == GUIManager_renderer_show(g, r, namespace, page_id)
              IN [r |-> attach_root(r1), data |-> update_root(r1),
                  exc |-> update_root_exc(r1)]

\* GUIManager.insert_pages for a list of one page: the coordinator and the
\* Renderer it leaves, the data handed to update, and the exception
insert_pages_data(g, r, namespace, page_id, position, session_data, resolved, built, glued) ==
    LET cat == IF namespace \in DOMAIN g.catalog THEN g.catalog
               ELSE MapPut(g.catalog, namespace, EmptyGroup)
        res == insert_page(cat[namespace], page_id, "uri", session_data,
                           position, resolved, built)
        g1 == [g EXCEPT !.catalog = [cat EXCEPT ![namespace] = res.g]]
    IN IF res.exc # None
       THEN [g |-> g1, r |-> r, data |-> None, exc |-> res.exc]
       ELSE IF Range(g.namespaces) = {namespace}
       THEN LET sh == GUIManager_show(g1, r, namespace, 0, glued)
            IN [g |-> g1, r |-> sh.r, data |-> sh.data, exc |-> sh.exc]
       ELSE [g |-> g1, r |-> r, data |-> None, exc |-> None]

\* insert_pages called with the session data "data"
insert_pages(g, r, namespace, page_id, position, resolved, built, glued) ==
    insert_pages_data(g, r, namespace, page_id, position, "data",
                      resolved, built, glued)

\* GUIManager.close(namespace, id) for a position id: the Renderer it
\* leaves, the data handed to update, and the exception.  glued = FALSE is
\* the call as written: Renderer.close has no parameters namespace and
\* page_id and raises TypeError; glued = TRUE hands it the route of the
\* page id (None when the position has no page).
GUIManager_close(g, r, namespace, id, glued) ==
    IF namespace \notin DOMAIN g.catalog
    THEN [r |-> r, data |-> None, exc |-> "KeyError"]
    ELSE LET page_id == get_page_id(g.catalog[namespace], id) IN
         IF ~glued
         THEN [r |-> r, data |-> None, exc |-> "TypeError"]
         ELSE LET c == Renderer_close(r, IF page_id = None THEN None
                                         ELSE Route(page_id))
              IN IF c.updates
                 THEN [r |-> attach_root(c.r), data |-> update_root(c.r),
                       exc |-> update_root_exc(c.r)]
                 ELSE [r |-> c.r, data |-> None, exc |-> None]

\* GUIManager.move_pages without its catalog test: self._catalog[namespace]
\* raises KeyError for a namespace that has no PageGroup
move_pages_unchecked(g, namespace, from_position, to_position) ==
    IF namespace \notin DOMAIN g.catalog
    THEN [g |-> g, exc |-> "KeyError"]
    ELSE [g |-> [g EXCEPT !.catalog[namespace] =
                      move_page(@, from_position, to_position).g],
          exc |-> None]

\* GUIManager.move_pages for one item: the coordinator it leaves and the
\* exception
move_pages(g, namespace, from_position, to_position) ==
    IF namespace \notin DOMAIN g.catalog
    THEN [g |-> g, exc |-> None]
    ELSE [g |-> [g EXCEPT !.catalog[namespace] =
                      move_page(@, from_position, to_position).g],
          exc |-> None]

\* GUIManager.remove_pages for one item.  For a namespace of the catalog
\* it reads self._catalog[namespace].active_index, an attribute PageGroup
\* does not have, and raises AttributeError before it removes anything.
remove_pages(g, namespace, position) ==
    IF namespace \notin DOMAIN g.catalog
    THEN [g |-> g, exc |-> None]
    ELSE [g |-> g, exc |-> "AttributeError"]

\* GUIManager.update_data and GUIManager.update_state.  With an active
\* page that has its PageManager, PageManager.update_data (update_state)
\* calls the page's update_session_data (update_trigger_state) with the
\* keyword page_manager, which the method does not take: TypeError.
update_data(g, namespace) ==
    IF namespace \notin DOMAIN g.catalog
    THEN [g |-> g, exc |-> None]
    ELSE LET page_id == get_active_page_id(g.catalog[namespace]) IN
         IF page_id = None \/ page_id \notin DOMAIN g.catalog[namespace].pages
         THEN [g |-> g, exc |-> None]
         ELSE [g |-> g, exc |-> "TypeError"]

update_state(g, namespace) == update_data(g, namespace)

TheGUIManager == [namespaces |-> namespaces, catalog |-> catalog]

(***************************************************************************)
(* Init: the state after construction.                                     *)
(***************************************************************************)
Init ==
    /\ listeners = <<>>
    /\ queues = [q \in QIds |-> <<>>]
    /\ nq = 0
    /\ delivered = [q \in QIds |-> <<>>]
    /\ published = <<>>
    /\ clients = <<>>
    /\ spc = [t \in Publishers |-> "idle"]
    /\ sidx = [t \in Publishers |-> 0]
    /\ smsg = [t \in Publishers |-> None]
    /\ scur = [t \in Publishers |-> 0]
    /\ sraised = FALSE
    /\ pg = EmptyGroup
    /\ pgExc = None
    /\ refIds = <<>>
    /\ sessions = <<>>
    /\ now = 0
    /\ swpc = "wait"
    /\ swNow = 0
    /\ swPos = 0
    /\ swUsed = 0
    /\ disconnected = <<>>
    /\ swLast = 0
    /\ getAt = [c \in SessionIds |-> <<>>]
    /\ pinged = [c \in SessionIds |-> FALSE]
    /\ req = NoRequest
    /\ page_stack = InitRenderer.page_stack
    /\ group_map = InitRenderer.group_map
    /\ group_catalog = InitRenderer.group_catalog
    /\ root_children = InitRenderer.root
    /\ tpc = [t \in ShowThreads |-> "idle"]
    /\ tpage = [t \in ShowThreads |-> None]
    /\ terminated = FALSE
    /\ bus_up = FALSE
    /\ cpc = "start"
    /\ ws = "none"
    /\ announced = FALSE
    /\ rxpc = "none"
    /\ inbox = <<>>
    /\ rxskipped = FALSE
    /\ session_mirror = EmptyMap
    /\ statusq = [h \in Handlers |-> <<>>]
    /\ wpc = [h \in Handlers |-> "loop"]
    /\ hclose = [h \in Handlers |-> FALSE]
    /\ htimer = [h \in Handlers |-> FALSE]
    /\ su_utterance = <<>>
    /\ su_duration = Zero
    /\ su_split = <<>>
    /\ su_persistence = <<>>
    /\ sh_queue = [h \in Handlers |-> <<>>]
    /\ sh_wpc = [h \in Handlers |-> "loop"]
    /\ sh_sleep = [h \in Handlers |-> 0]
    /\ sh_since = [h \in Handlers |-> 0]
    /\ sh_lastp = [h \in Handlers |-> 0]
    /\ sh_timestamp = [h \in Handlers |-> -1]
    /\ sh_timers = [h \in Handlers |-> <<>>]
    /\ sh_tnone = [h \in Handlers |-> TRUE]
    /\ sh_spinner = "fade-out"
    /\ sh_last = NoHandling
    /\ sh_n = 0
    /\ active_skills = <<>>
    /\ namespaces = <<>>
    /\ catalog = EmptyMap
    /\ call = NoCall

(***************************************************************************)
(* Actions of the event fan-out, publications serialised.                  *)
(***************************************************************************)
\* EventSender.listen(), called by the /updates stream
Listen ==
    /\ nq < MaxListeners
    /\ nq' = nq + 1
    /\ listeners' = Append(listeners, nq + 1)
    /\ UNCHANGED <<queues, delivered, published, clients, raceVars, notBus>>

\* messages.get() of a /updates stream
Dequeue(q) ==
    /\ q <= nq
    /\ queues[q] # <<>>
    /\ delivered' = [delivered EXCEPT ![q] = Append(@, Head(queues[q]))]
    /\ queues' = [queues EXCEPT ![q] = Tail(@)]
    /\ UNCHANGED <<listeners, nq, published, clients, raceVars, notBus>>

RegisterClient(c) ==
    /\ register_client(c)
    /\ UNCHANGED <<listeners, queues, nq, delivered, published, raceVars, notBus>>

Deregister(c) ==
    /\ deregister(c)
    /\ UNCHANGED <<listeners, queues, nq, delivered, published, raceVars, notBus>>

\* one whole Renderer.update call
Update(data, event_id) ==
    /\ Len(published) < MaxPub
    /\ update(data, event_id)
    /\ UNCHANGED <<nq, delivered, clients, raceVars, notBus>>

Next ==
    \/ Listen
    \/ \E q \in QIds : Dequeue(q)
    \/ \E c \in SessionIds : RegisterClient(c)
    \/ \E c \in SessionIds : Deregister(c)
    \/ \E d \in {None, "d"}, e \in EventIds : Update(d, e)

Spec == Init /\ [][Next]_vars

(***************************************************************************)
(* C1: EventSender.send, run alone.                                        *)
(***************************************************************************)
\* what one send(msg) must do to the subscribers it started with
SendPost(ls0, qs0, ls1, qs1, msg) ==
    /\ \A q \in Range(ls0) :
          IF ~Full(qs0[q])
          THEN qs1[q] = Append(qs0[q], msg) /\ q \in Range(ls1)
          ELSE qs1[q] = qs0[q] /\ q \notin Range(ls1)
    /\ \A q \in QIds \ Range(ls0) : qs1[q] = qs0[q]
    /\ Range(ls1) \subseteq Range(ls0)

\* C1: every Send(msg) gives msg exactly once to each subscriber whose queue
\* has room, removes each subscriber whose queue is full without giving it
\* msg, and neither removes nor skips a subscriber with room because another
\* one was dropped in the same Send.
C1_SendContract ==
    [][published' # published =>
         SendPost(listeners, queues, listeners', queues',
                  published'[Len(published')])]_vars

\* a Send has dropped a full subscriber and delivered to another one
C1_Witness ==
    /\ published # <<>>
    /\ \E q \in 1 .. nq, q2 \in 1 .. nq :
          LET m == published[Len(published)] IN
          /\ q \notin Range(listeners)
          /\ Full(queues[q])
          /\ m \notin Range(queues[q]) \cup Range(delivered[q])
          /\ q2 \in Range(listeners)
          /\ queues[q2] # <<>>
          /\ queues[q2][Len(queues[q2])] = m

(***************************************************************************)
(* The same fan-out with concurrent publishers.  Renderer.update and       *)
(* EventSender.send take no lock: the bus receive thread and the status    *)
(* workers and timers run them at the same time, and a thread switch can   *)
(* fall between two iterations and between a Full and the remove.          *)
(***************************************************************************)
\* Renderer.update entered by thread t: the guard, the message, and the
\* reversed() iterator of send created over the list as it is now
RaceStart(t, data, event_id) ==
    /\ spc[t] = "idle"
    /\ Len(published) < MaxPub
    /\ ~(clients = <<>> \/ data = None)
    /\ LET msg == Frame(Len(published) + 1, event_id, data) IN
       /\ published' = Append(published, msg)
       /\ smsg' = [smsg EXCEPT ![t] = msg]
    /\ sidx' = [sidx EXCEPT ![t] = Len(listeners)]
    /\ spc' = [spc EXCEPT ![t] = "iter"]
    /\ UNCHANGED <<listeners, queues, nq, delivered, clients, scur, sraised, notBus>>

\* next() of the reversed iterator
RaceNext(t) ==
    /\ spc[t] = "iter"
    /\ IF HasNext(listeners, sidx[t])
       THEN /\ scur' = [scur EXCEPT ![t] = listeners[sidx[t]]]
            /\ sidx' = [sidx EXCEPT ![t] = @ - 1]
            /\ spc' = [spc EXCEPT ![t] = "put"]
       ELSE /\ spc' = [spc EXCEPT ![t] = "idle"]
            /\ UNCHANGED <<scur, sidx>>
    /\ UNCHANGED <<busVars, smsg, sraised, notBus>>

\* listener.put_nowait(msg)
RacePut(t) ==
    /\ spc[t] = "put"
    /\ IF ~Full(queues[scur[t]])
       THEN /\ queues' = [queues EXCEPT ![scur[t]] = Append(@, smsg[t])]
            /\ spc' = [spc EXCEPT ![t] = "iter"]
       ELSE /\ spc' = [spc EXCEPT ![t] = "remove"]
            /\ UNCHANGED queues
    /\ UNCHANGED <<listeners, nq, delivered, published, clients,
                   sidx, smsg, scur, sraised, notBus>>

\* except Full: self._listeners.remove(listener); list.remove raises
\* ValueError when another thread has removed the listener already
RaceRemove(t) ==
    /\ spc[t] = "remove"
    /\ IF scur[t] \in Range(listeners)
       THEN /\ listeners' = ListRemove(listeners, scur[t])
            /\ spc' = [spc EXCEPT ![t] = "iter"]
            /\ UNCHANGED sraised
       ELSE /\ sraised' = TRUE
            /\ spc' = [spc EXCEPT ![t] = "idle"]
            /\ UNCHANGED listeners
    /\ UNCHANGED <<queues, nq, delivered, published, clients, sidx, smsg, scur, notBus>>

NextRace ==
    \/ Listen
    \/ \E q \in QIds : Dequeue(q)
    \/ \E c \in SessionIds : RegisterClient(c)
    \/ \E t \in Publishers : RaceStart(t, "d", "p1")
    \/ \E t \in Publishers : RaceNext(t)
    \/ \E t \in Publishers : RacePut(t)
    \/ \E t \in Publishers : RaceRemove(t)

SpecRace == Init /\ [][NextRace]_vars

(***************************************************************************)
(* C2: order of delivery.                                                  *)
(***************************************************************************)
\* s is a subsequence of t
RECURSIVE IsSubsequence(_, _)
IsSubsequence(s, t) ==
    IF s = <<>> THEN TRUE
    ELSE IF t = <<>> THEN FALSE
    ELSE IF Head(s) = Head(t) THEN IsSubsequence(Tail(s), Tail(t))
    ELSE IsSubsequence(s, Tail(t))

\* C2: for every subscriber, the sequence of messages it dequeues is a
\* subsequence of the order in which the Renderer issued the publications,
\* under every interleaving of the publishing threads with Listen.
C2_DeliveredInPublicationOrder ==
    \A q \in QIds : IsSubsequence(delivered[q], published)

\* two subscribers have dequeued the same two publications in opposite
\* orders: no order of publication explains both
C2_Witness ==
    \E q1 \in QIds, q2 \in QIds :
        /\ Len(delivered[q1]) >= 2
        /\ Len(delivered[q2]) >= 2
        /\ delivered[q1][1] = delivered[q2][2]
        /\ delivered[q1][2] = delivered[q2][1]

(***************************************************************************)
(* One PageGroup under every sequence of its list and activation calls.    *)
(***************************************************************************)
Clamp(position, lo, hi) == Max(Min(position, hi), lo)

\* the reference of C5: a plain ordered sequence, every position first
\* clamped to the nearest valid bound
RefInsert(s, page_id, position) ==
    LET rest == IF page_id \in Range(s) THEN ListRemove(s, page_id) ELSE s
    IN PyInsert(rest, Clamp(position, 0, Len(rest)), page_id)

RefRemove(s, position) ==
    IF s = <<>> THEN s ELSE RemoveAt(s, Clamp(position, 0, Len(s) - 1) + 1)

RefMove(s, from, to) ==
    IF s = <<>> THEN s
    ELSE LET f == Clamp(from, 0, Len(s) - 1)
             rest == RemoveAt(s, f + 1)
         IN PyInsert(rest, Clamp(to, 0, Len(rest)), s[f + 1])

\* the first exception of a run is kept
Raised(before, exc) == IF before # None THEN before ELSE exc

InsertPage(page_id, position, resolved, built) ==
    /\ LET r == insert_page(pg, page_id, "uri", "data", position, resolved, built) IN
       /\ pg' = r.g
       /\ pgExc' = Raised(pgExc, r.exc)
    /\ refIds' = RefInsert(refIds, page_id, position)
    /\ UNCHANGED notPg

RemovePage(position) ==
    /\ LET r == remove_page(pg, position) IN
       /\ pg' = r.g
       /\ pgExc' = Raised(pgExc, r.exc)
    /\ refIds' = RefRemove(refIds, position)
    /\ UNCHANGED notPg

MovePage(from, to) ==
    /\ LET r == move_page(pg, from, to) IN
       /\ pg' = r.g
       /\ pgExc' = Raised(pgExc, r.exc)
    /\ refIds' = RefMove(refIds, from, to)
    /\ UNCHANGED notPg

ActivatePage(id, isint) ==
    /\ Len(pg.active_indexes) < MaxActive
    /\ pg' = activate_page(pg, id, isint)
    /\ UNCHANGED <<pgExc, refIds, notPg>>

DeactivatePage ==
    /\ pg' = deactivate_page(pg)
    /\ UNCHANGED <<pgExc, refIds, notPg>>

NextPageGroup ==
    \/ \E page_id \in PageIds, position \in Positions, resolved \in BOOLEAN,
          built \in BOOLEAN : InsertPage(page_id, position, resolved, built)
    \/ \E position \in Positions : RemovePage(position)
    \/ \E from \in Positions, to \in Positions : MovePage(from, to)
    \/ \E position \in Positions : ActivatePage(position, TRUE)
    \/ \E page_id \in PageIds : ActivatePage(page_id, FALSE)
    \/ DeactivatePage

SpecPageGroup == Init /\ [][NextPageGroup]_vars

(***************************************************************************)
(* C5, C6, C7: the PageGroup list and its invariants.                      *)
(***************************************************************************)
\* C5: after any sequence of insert_page, move_page and remove_page calls,
\* with positions inside and outside the valid range, the list of page ids
\* equals the one obtained on a plain ordered sequence with every position
\* clamped to the nearest valid bound, and no call raises.
C5_ListEqualsClampedSequence ==
    /\ pgExc = None
    /\ pg.page_ids = refIds

\* no call has raised, and yet the list differs from the clamped sequence
C5_Witness ==
    /\ pgExc = None
    /\ pg.page_ids # refIds

\* C6: in every reachable state the page ids of the ordered sequence are
\* exactly the keys of the PageManager map, also after an insert whose page
\* construction fails.
C6_ListedIdsHaveManagers == Range(pg.page_ids) = DOMAIN pg.pages

\* C7: in every reachable state every entry i of the active-index stack
\* satisfies 0 <= i < number of pages.
C7_ActiveIndexesValid ==
    \A k \in 1 .. Len(pg.active_indexes) :
        0 <= pg.active_indexes[k] /\ pg.active_indexes[k] < num_pages(pg)

\* no call has raised, every listed page has its manager, and the stack
\* holds the index of a page that is gone
C7_Witness ==
    /\ pgExc = None
    /\ C6_ListedIdsHaveManagers
    /\ ~C7_ActiveIndexesValid

(***************************************************************************)
(* The HTTP handlers and the check_disconnected thread.  The handlers run  *)
(* on the server's event loop, the sweeper on its own thread: its scan of  *)
(* sessions.items() is outside the lock, one step per item, and its        *)
(* deletions are one step under the lock.                                  *)
(***************************************************************************)
\* GET / answered with the session id session_id (a token_hex(4) value)
Root(session_id) ==
    /\ clients' = root(AppState, session_id).clients
    /\ getAt' = [getAt EXCEPT ![session_id] = <<now>>]
    /\ pinged' = [pinged EXCEPT ![session_id] = FALSE]
    /\ req' = Answer("root", session_id, 200)
    /\ UNCHANGED <<sessions, now, swpc, swNow, swPos, swUsed,
                   disconnected, swLast, notSess>>

\* POST /ping/{session_id}
Ping(session_id) ==
    /\ LET a == ping(AppState, session_id, now) IN
       /\ sessions' = a.sessions
       /\ clients' = a.clients
    /\ pinged' = [pinged EXCEPT ![session_id] = TRUE]
    /\ req' = Answer("ping", session_id, 204)
    /\ UNCHANGED <<now, swpc, swNow, swPos, swUsed, disconnected,
                   swLast, getAt, notSess>>

\* time passes; a waiting sweeper wakes when its timeout is over
Tick ==
    /\ now < MaxTime
    /\ swpc = "wait" => now + 1 - swLast <= CheckWait
    /\ now' = now + 1
    /\ UNCHANGED <<clients, sessions, swpc, swNow, swPos, swUsed,
                   disconnected, swLast, getAt, pinged, req, notSess>>

\* termination_event.wait(timeout=wait_time) returns False: now = time(),
\* disconnected = [], and the for loop creates the iterator of
\* sessions.items()
SweepWake ==
    /\ swpc = "wait"
    /\ ~terminated
    /\ now - swLast >= CheckWait
    /\ swNow' = now
    /\ disconnected' = <<>>
    /\ swPos' = 1
    /\ swUsed' = Len(sessions)
    /\ swpc' = "scan"
    /\ UNCHANGED <<clients, sessions, now, swLast, getAt, pinged, req,
                   notSess>>

\* the locals of check_disconnected are dead between two cycles
SweepLocalsReset ==
    /\ swNow' = 0
    /\ swPos' = 0
    /\ swUsed' = 0
    /\ disconnected' = <<>>

\* one next() of the dict iterator and the loop body for the item: the
\* iterator raises RuntimeError when the dict has changed size, and the
\* thread ends with it
SweepScan ==
    /\ swpc = "scan"
    /\ IF Len(sessions) # swUsed
       THEN /\ swpc' = "dead"
            /\ SweepLocalsReset
            /\ UNCHANGED <<clients, swLast>>
       ELSE IF swPos > Len(sessions)
       THEN IF disconnected # <<>>
            THEN /\ swpc' = "delete"
                 /\ UNCHANGED <<clients, swNow, swPos, swUsed, disconnected, swLast>>
            ELSE /\ swpc' = "wait"
                 /\ swLast' = now
                 /\ SweepLocalsReset
                 /\ UNCHANGED clients
       ELSE /\ swPos' = swPos + 1
            /\ IF expired(swNow, sessions[swPos].t)
               THEN /\ deregister(sessions[swPos].id)
                    /\ disconnected' = Append(disconnected, sessions[swPos].id)
               ELSE UNCHANGED <<clients, disconnected>>
            /\ UNCHANGED <<swpc, swNow, swUsed, swLast>>
    /\ UNCHANGED <<sessions, now, getAt, pinged, req, notSess>>

\* with session_lock: del sessions[session_id] for the disconnected ones
SweepDelete ==
    /\ swpc = "delete"
    /\ sessions' = SessDel(sessions, disconnected)
    /\ swpc' = "wait"
    /\ swLast' = now
    /\ SweepLocalsReset
    /\ UNCHANGED <<clients, now, getAt, pinged, req, notSess>>

NextSession ==
    \/ \E c \in SessionIds : Root(c)
    \/ \E c \in SessionIds : Ping(c)
    \/ Tick
    \/ SweepWake
    \/ SweepScan
    \/ SweepDelete

SpecSession == Init /\ [][NextSession]_vars

(***************************************************************************)
(* C8, C9, C10: eviction of silent sessions.                               *)
(***************************************************************************)
\* a step that ends a cycle of the sweeper: the loop is back at its wait
SweepCycleEnds == swpc \in {"scan", "delete"} /\ swpc' = "wait"

\* a step that ends a cycle of the sweeper, or the sweeper thread
SweepCycleOver == swpc \in {"scan", "delete"} /\ swpc' \in {"wait", "dead"}

\* C8: a session created by GET / for which no ping ever arrives is
\* deregistered by the sweeper: a sweeper cycle that starts after
\* ping_period + 3 * check_wait have elapsed since the GET leaves the session
\* id out of the Renderer's client registry.
C8_UnpingedSessionSwept ==
    [][SweepCycleEnds =>
         \A c \in SessionIds :
            (/\ getAt[c] # <<>>
             /\ ~pinged[c]
             /\ swNow - getAt[c][1] > PingPeriod + 3 * CheckWait)
            => c \notin Range(clients')]_vars

\* a session handed out by GET / and never pinged is not tracked, and it is
\* still a client when the sweeper is back at its wait after a cycle that
\* ended later than ping_period + 3 * check_wait after the GET
C8_Witness ==
    \E c \in SessionIds :
        /\ getAt[c] # <<>>
        /\ ~pinged[c]
        /\ c \notin SessIds(sessions)
        /\ c \in Range(clients)
        /\ swpc = "wait"
        /\ swLast - getAt[c][1] > PingPeriod + 3 * CheckWait

\* C9: a tracked session whose last ping is older than
\* ping_period + 2 * check_wait when a sweeper cycle starts, and that is not
\* pinged again, is out of the session map when that cycle is over.
C9_StaleSessionEvictedNextCycle ==
    [][SweepCycleOver =>
         \A i \in 1 .. Len(sessions) :
            swNow - sessions[i].t > PingPeriod + 2 * CheckWait
            => sessions[i].id \notin SessIds(sessions')]_vars

\* the sweeper thread has ended with the RuntimeError of its dict iterator
\* and a session that is older than ping_period + 3 * check_wait is still
\* tracked: no later cycle evicts it
C9_Witness ==
    /\ swpc = "dead"
    /\ \E i \in 1 .. Len(sessions) :
          now - sessions[i].t > PingPeriod + 3 * CheckWait

\* the step is the answer to POST /ping/{c}, to GET / with session id c
PingStep(c) == req'.n # req.n /\ req'.op = "ping" /\ req'.sid = c
RootStep(c) == req'.n # req.n /\ req'.op = "root" /\ req'.sid = c

\* the sweeper has evicted c: GET / handed it out, and it is neither a
\* client nor tracked
Evicted(c) ==
    /\ getAt[c] # <<>>
    /\ c \notin Range(clients)
    /\ c \notin SessIds(sessions)

SetRenderer(r) ==
    /\ page_stack' = r.page_stack
    /\ group_map' = r.group_map
    /\ group_catalog' = r.group_catalog
    /\ root_children' = r.root

RendererInsert(namespace, page_id, position) ==
    /\ SetRenderer(Renderer_insert(TheRenderer, namespace, Route(page_id),
                                   position, page_id))
    /\ UNCHANGED <<listeners, queues, published, notRend>>

RendererShow(namespace, page_id) ==
    /\ Len(published) < MaxFrames
    /\ LET r == Renderer_show(TheRenderer, namespace, Route(page_id), page_id) IN
       /\ SetRenderer(attach_root(r))
       /\ update(update_root(r), "root")
    /\ UNCHANGED notRend

RegisterInteractionParameter(namespace, page_id) ==
    /\ SetRenderer(register_interaction_parameter(TheRenderer, namespace,
                                                  Route(page_id)))
    /\ UNCHANGED <<listeners, queues, published, notRend>>

UpdateAttributes(page_id, attribute) ==
    /\ Len(published) < MaxFrames
    /\ LET u == update_attributes(TheRenderer, Route(page_id), attribute) IN
       /\ SetRenderer(u.r)
       /\ update(u.data, ParameterId(Route(page_id)))
    /\ UNCHANGED notRend

NextRenderer ==
    \/ \E namespace \in RendererNamespaces, page_id \in RendererPageIds,
          position \in RendererPositions :
          RendererInsert(namespace, page_id, position)
    \/ \E namespace \in RendererNamespaces, page_id \in RendererPageIds :
          RendererShow(namespace, page_id)
    \/ \E namespace \in RendererNamespaces \cup {"status-ns"},
          page_id \in RendererPageIds \cup {"status"} :
          RegisterInteractionParameter(namespace, page_id)
    \/ \E page_id \in RendererPageIds \cup {"status"},
          attribute \in AttributeValues \cup InnerContents \cup {None} :
          UpdateAttributes(page_id, attribute)
    \/ \E c \in GuiClients : RegisterClient(c)
    \/ \E c \in GuiClients : Deregister(c)

SpecRenderer == Init /\ [][NextRenderer]_vars

(***************************************************************************)
(* The GUI coordinator over the Renderer.                                  *)
(***************************************************************************)
SetGUIManager(g) ==
    /\ namespaces' = g.namespaces
    /\ catalog' = g.catalog

InsertNamespace(namespace, position) ==
    /\ SetGUIManager(insert_namespace(TheGUIManager, namespace, position))
    /\ call' = NoCall
    /\ UNCHANGED <<listeners, queues, published, rendVars, notGui>>

InsertPages(namespace, page_id, position, resolved, built, glued) ==
    /\ Len(published) < MaxFrames
    /\ LET res == insert_pages(TheGUIManager, TheRenderer, namespace, page_id,
                               position, resolved, built, glued) IN
       /\ SetGUIManager(res.g)
       /\ SetRenderer(res.r)
       /\ update(res.data, "root")
       /\ call' = NoCall
    /\ UNCHANGED notGui

GuiActivatePage(namespace, id) ==
    /\ namespace \in DOMAIN catalog =>
          Len(catalog[namespace].active_indexes) < MaxGuiActive
    /\ SetGUIManager(GUIManager_activate_page(TheGUIManager, namespace, id))
    /\ call' = NoCall
    /\ UNCHANGED <<listeners, queues, published, rendVars, notGui>>

Show(namespace, id, glued) ==
    /\ Len(published) < MaxFrames
    /\ LET sh == GUIManager_show(TheGUIManager, TheRenderer, namespace, id, glued) IN
       /\ SetRenderer(sh.r)
       /\ update(sh.data, "root")
       /\ call' = Called("show", namespace, id, sh.exc, Publishes(sh.data))
    /\ UNCHANGED <<guiVars, notGui>>

GuiClose(namespace, id, glued) ==
    /\ Len(published) < MaxFrames
    /\ LET cl == GUIManager_close(TheGUIManager, TheRenderer, namespace, id, glued) IN
       /\ SetRenderer(cl.r)
       /\ update(cl.data, "root")
       /\ call' = Called("close", namespace, id, cl.exc, Publishes(cl.data))
    /\ UNCHANGED <<guiVars, notGui>>

GuiMovePages(namespace, from_position, to_position) ==
    /\ LET mv == move_pages(TheGUIManager, namespace, from_position, to_position) IN
       /\ SetGUIManager(mv.g)
       /\ call' = Called("move_pages", namespace, from_position, mv.exc, 0)
    /\ UNCHANGED <<listeners, queues, published, rendVars, notGui>>

GuiRemovePages(namespace, position) ==
    /\ LET rm == remove_pages(TheGUIManager, namespace, position) IN
       /\ SetGUIManager(rm.g)
       /\ call' = Called("remove_pages", namespace, position, rm.exc, 0)
    /\ UNCHANGED <<listeners, queues, published, rendVars, notGui>>

GuiUpdateData(namespace) ==
    /\ LET ud == update_data(TheGUIManager, namespace) IN
       /\ SetGUIManager(ud.g)
       /\ call' = Called("update_data", namespace, 0, ud.exc, 0)
    /\ UNCHANGED <<listeners, queues, published, rendVars, notGui>>

GuiUpdateState(namespace) ==
    /\ LET us == update_state(TheGUIManager, namespace) IN
       /\ SetGUIManager(us.g)
       /\ call' = Called("update_state", namespace, 0, us.exc, 0)
    /\ UNCHANGED <<listeners, queues, published, rendVars, notGui>>

NextGui ==
    \/ \E namespace \in Namespaces, position \in GuiPositions :
          InsertNamespace(namespace, position)
    \/ \E namespace \in Namespaces, page_id \in GuiPageIds,
          position \in GuiPositions, resolved \in BOOLEAN, built \in BOOLEAN,
          glued \in BOOLEAN :
          InsertPages(namespace, page_id, position, resolved, built, glued)
    \/ \E namespace \in Namespaces, id \in GuiPositions :
          GuiActivatePage(namespace, id)
    \/ \E namespace \in Namespaces, id \in GuiPositions, glued \in BOOLEAN :
          Show(namespace, id, glued)
    \/ \E namespace \in Namespaces, from_position \in GuiPositions,
          to_position \in GuiPositions :
          GuiMovePages(namespace, from_position, to_position)
    \/ \E namespace \in Namespaces, position \in GuiPositions :
          GuiRemovePages(namespace, position)
    \/ \E namespace \in Namespaces : GuiUpdateData(namespace)
    \/ \E namespace \in Namespaces : GuiUpdateState(namespace)
    \/ \E c \in GuiClients : RegisterClient(c)
    \/ \E c \in GuiClients : Deregister(c)

SpecGui == Init /\ [][NextGui]_vars

\* the coordinator showing and closing the pages of one namespace
NextGuiClose ==
    \/ \E namespace \in CloseNamespaces, page_id \in ClosePageIds,
          position \in GuiPositions, resolved \in BOOLEAN, built \in BOOLEAN,
          glued \in BOOLEAN :
          InsertPages(namespace, page_id, position, resolved, built, glued)
    \/ \E namespace \in CloseNamespaces, id \in GuiPositions, glued \in BOOLEAN :
          Show(namespace, id, glued)
    \/ \E namespace \in CloseNamespaces, id \in GuiPositions, glued \in BOOLEAN :
          GuiClose(namespace, id, glued)
    \/ \E c \in GuiClients : RegisterClient(c)

SpecGuiClose == Init /\ [][NextGuiClose]_vars

(***************************************************************************)
(* C3: attribute updates of pages that are not shown.                      *)
(***************************************************************************)
\* C3: an update_attributes call addressed to a page that is not the last
\* shown route publishes no frame: every frame of a parameter (a frame whose
\* event is not 'root') that is published carries the parameter id of the
\* route on top of the page stack.
C3_OffscreenUpdatePublishesNothing ==
    [][(published' # published /\ Last(published').event # "root")
       => Last(published').event = ParameterId(Last(page_stack))]_vars

\* the last frame published is the parameter frame of a route that was
\* inserted and never shown: it is still in front of the status route in
\* the page stack
C3_Witness ==
    \E page_id \in RendererPageIds :
        /\ Route(page_id) \in Range(page_stack)
        /\ IndexOf(page_stack, Route(page_id)) < IndexOf(page_stack, Route("status"))
        /\ published # <<>>
        /\ Last(published).event = ParameterId(Route(page_id))

(***************************************************************************)
(* C4: GUIManager.show.                                                    *)
(***************************************************************************)
\* the step is a call of GUIManager.show(namespace, id)
ShowStep(namespace, id) ==
    /\ call'.op = "show"
    /\ call'.ns = namespace
    /\ call'.id = id
    /\ call' # call \/ <<published, rendVars>>' # <<published, rendVars>>

\* C4: after show(ns, id) on a namespace of the catalog and a page of its
\* group, the active namespace is ns, the active page id of ns is that
\* page, and the call has published exactly one 'root' frame with the
\* page's serialised HTML.
C4_ShowActivatesAndPublishesOnce ==
    [][\A namespace \in Namespaces, id \in GuiPositions :
         (/\ ShowStep(namespace, id)
          /\ namespace \in DOMAIN catalog
          /\ get_page_id(catalog[namespace], id) \in DOMAIN catalog[namespace].pages)
         => LET page_id == get_page_id(catalog[namespace], id) IN
            /\ get_active_namespace(namespaces') = namespace
            /\ get_active_page_id(catalog'[namespace]) = page_id
            /\ Len(published') = Len(published) + 1
            /\ Last(published').event = "root"
            /\ Last(published').data = to_string(page_id)]_vars

\* a show of a page of the catalog has returned after publishing its root
\* frame, and the active namespace is another one and the group of the
\* namespace has no active page
C4_Witness ==
    /\ call.op = "show"
    /\ call.done
    /\ call.ns \in DOMAIN catalog
    /\ get_page_id(catalog[call.ns], call.id) \in DOMAIN catalog[call.ns].pages
    /\ Last(published).data = to_string(get_page_id(catalog[call.ns], call.id))
    /\ get_active_namespace(namespaces) # call.ns
    /\ get_active_page_id(catalog[call.ns]) = None

(***************************************************************************)
(* C11: the session lock and the sweeper's scan.                           *)
(***************************************************************************)
\* C11: every access to the session map is serialised by the session lock,
\* so no step taken while the sweeper scans (a ping that inserts a new
\* session id included) makes the sweeper fail: a scanning sweeper goes on
\* scanning, goes to its deletions or goes back to its wait.
C11_ScanNeverFails ==
    [][swpc = "scan" => swpc' \in {"scan", "delete", "wait"}]_vars

\* the sweeper thread has ended while no termination was asked for, and the
\* last request answered is a ping whose session id is tracked
C11_Witness ==
    /\ swpc = "dead"
    /\ req.op = "ping"
    /\ req.sid \in SessIds(sessions)

(***************************************************************************)
(* Root transitions of the Renderer from two threads.  Renderer.show,      *)
(* Renderer.close and Renderer.update_root take no lock: a thread is       *)
(* preempted between the statements of update_root, so a transition is the *)
(* steps change-the-stack, read the route and its page, detach the root's  *)
(* children, add the page, publish.                                        *)
(***************************************************************************)
notShow == <<nq, delivered, clients, raceVars, pgVars, sessVars, guiVars,
            clientVars, splitVars, statVars, skillVars, call>>

\* the transitions under way
Busy == {t \in ShowThreads : tpc[t] # "idle"}

\* Renderer.show, lines 641-667, called by thread t
TShow(t, namespace, page_id) ==
    /\ tpc[t] = "idle"
    /\ Len(published) + Cardinality(Busy) < MaxFrames
    /\ SetRenderer(Renderer_show(TheRenderer, namespace, Route(page_id), page_id))
    /\ tpc' = [tpc EXCEPT ![t] = "root"]
    /\ UNCHANGED <<tpage, listeners, queues, published, notShow>>

\* Renderer.close, lines 671-684, called by thread t
TClose(t, route) ==
    /\ tpc[t] = "idle"
    /\ Len(published) + Cardinality(Busy) < MaxFrames
    /\ LET c == Renderer_close(TheRenderer, route) IN
       /\ SetRenderer(c.r)
       /\ tpc' = [tpc EXCEPT ![t] = IF c.updates THEN "root" ELSE "idle"]
    /\ UNCHANGED <<tpage, listeners, queues, published, notShow>>

\* update_root, lines 726-734: the route on top of the stack, its
\* namespace and its page
TReadRoot(t) ==
    /\ tpc[t] = "root"
    /\ IF root_page(TheRenderer) = "unknown"
       THEN /\ tpc' = [tpc EXCEPT ![t] = "idle"]
            /\ UNCHANGED tpage
       ELSE /\ tpc' = [tpc EXCEPT ![t] = "detach"]
            /\ tpage' = [tpage EXCEPT ![t] = root_page(TheRenderer)]
    /\ UNCHANGED <<rendVars, listeners, queues, published, notShow>>

\* update_root, lines 735-736: self._root.detach_children()
TDetach(t) ==
    /\ tpc[t] = "detach"
    /\ root_children' = <<>>
    /\ tpc' = [tpc EXCEPT ![t] = "attach"]
    /\ UNCHANGED <<page_stack, group_map, group_catalog, tpage, listeners,
                   queues, published, notShow>>

\* update_root, line 737: self._root.add_child(page)
TAttach(t) ==
    /\ tpc[t] = "attach"
    /\ root_children' = Append(root_children, tpage[t])
    /\ tpc' = [tpc EXCEPT ![t] = "publish"]
    /\ UNCHANGED <<page_stack, group_map, group_catalog, tpage, listeners,
                   queues, published, notShow>>

\* update_root, line 738: self.update(page.to_string(), event_id="root")
TPublish(t) ==
    /\ tpc[t] = "publish"
    /\ update(IF tpage[t] = None THEN None ELSE to_string(tpage[t]), "root")
    /\ tpc' = [tpc EXCEPT ![t] = "idle"]
    /\ tpage' = [tpage EXCEPT ![t] = None]
    /\ UNCHANGED <<rendVars, notShow>>

NextShowRace ==
    \/ \E t \in ShowThreads, namespace \in RendererNamespaces,
          page_id \in RendererPageIds : TShow(t, namespace, page_id)
    \/ \E t \in ShowThreads, page_id \in RendererPageIds :
          TClose(t, Route(page_id))
    \/ \E t \in ShowThreads : TReadRoot(t)
    \/ \E t \in ShowThreads : TDetach(t)
    \/ \E t \in ShowThreads : TAttach(t)
    \/ \E t \in ShowThreads : TPublish(t)
    \/ \E c \in GuiClients : RegisterClient(c)

SpecShowRace == Init /\ [][NextShowRace]_vars

\* C12: root transitions invoked concurrently from different threads never
\* interleave: after every step the root container has at most one child,
\* and every 'root' frame published carries the page of the route that is
\* on top of the Renderer's page stack.
C12_RootTransitionsAtomic ==
    [][/\ Len(root_children') <= 1
       /\ (published' # published /\ Last(published').event = "root")
          => Last(published').data = update_root(TheRenderer)']_vars

\* both threads are through their transitions, the root container holds
\* two pages, and the last 'root' frame is not the page of the top route
C12_Witness ==
    /\ Busy = {}
    /\ Len(root_children) = 2
    /\ published # <<>>
    /\ Last(published).data # update_root(TheRenderer)

(***************************************************************************)
(* C13: a Show of the route that is already shown.                         *)
(***************************************************************************)
\* C13: a Show whose route is the one last shown (the top of the page
\* stack, put there by the Show before) is skipped: the step publishes no
\* frame and leaves the child of the root container as it is.
C13_ShowOfShownRouteSkipped ==
    [][\A namespace \in RendererNamespaces, page_id \in RendererPageIds :
         (Route(page_id) = Last(page_stack) /\ RendererShow(namespace, page_id))
         => /\ published' = published
            /\ root_children' = root_children]_vars

\* the shown page is on top of the stack and under the root, and the last
\* two frames are both 'root' frames that carry it
C13_Witness ==
    /\ Len(published) >= 2
    /\ root_children = <<root_page(TheRenderer)>>
    /\ \A k \in {Len(published) - 1, Len(published)} :
          /\ published[k].event = "root"
          /\ published[k].data = update_root(TheRenderer)

(***************************************************************************)
(* C14: bring-up.                                                          *)
(***************************************************************************)
\* C14: from the state after construction (no namespace active, empty
\* catalog) with one browser registered, a session.set frame for the
\* namespace (which changes nothing of the coordinator while the namespace
\* is not in the catalog) followed by a gui.list.insert frame with one page
\* creates a PageGroup containing exactly that page, shows its position 0,
\* and publishes exactly one 'root' frame.
C14_BringUpShowsFirstPage ==
    [][\A namespace \in Namespaces, page_id \in GuiPageIds,
          resolved \in BOOLEAN, built \in BOOLEAN, glued \in BOOLEAN :
         (/\ namespaces = <<>>
          /\ catalog = EmptyMap
          /\ clients # <<>>
          /\ published = <<>>
          /\ InsertPages(namespace, page_id, 0, resolved, built, glued))
         => /\ namespace \in DOMAIN catalog'
            /\ catalog'[namespace].page_ids = <<page_id>>
            /\ DOMAIN catalog'[namespace].pages = {page_id}
            /\ Len(published') = 1
            /\ Last(published').event = "root"
            /\ Last(published').data = to_string(page_id)]_vars

\* the first gui.list.insert has created the PageGroup with its one page
\* while a browser is registered, and nothing was published
C14_Witness ==
    /\ namespaces = <<>>
    /\ clients # <<>>
    /\ published = <<>>
    /\ \E namespace \in Namespaces, page_id \in GuiPageIds :
          /\ DOMAIN catalog = {namespace}
          /\ catalog[namespace].page_ids = <<page_id>>
          /\ DOMAIN catalog[namespace].pages = {page_id}

(***************************************************************************)
(* C15: Close resumes the page shown before.                               *)
(***************************************************************************)
\* the page stack after Show(a) and then Show(b): b is displayed and a is
\* right below it
ShownThen(a, b) ==
    /\ a # b
    /\ Len(page_stack) >= 2
    /\ Last(page_stack) = Route(b)
    /\ page_stack[Len(page_stack) - 1] = Route(a)

\* C15: after Show(a), then Show(b) with b different from a, a Close(b)
\* (with a browser registered to receive the frame) leaves a as the
\* displayed route and publishes, as its last step, one 'root' frame that
\* carries a's page.
C15_CloseResumesPrevious ==
    [][\A namespace \in CloseNamespaces, id \in GuiPositions,
          glued \in BOOLEAN, a \in ClosePageIds :
         (/\ namespace \in DOMAIN catalog
          /\ get_page_id(catalog[namespace], id) # None
          /\ ShownThen(a, get_page_id(catalog[namespace], id))
          /\ clients # <<>>
          /\ GuiClose(namespace, id, glued))
         => /\ Last(page_stack') = Route(a)
            /\ Len(published') = Len(published) + 1
            /\ Last(published').event = "root"
            /\ Last(published').data = to_string(a)]_vars

\* a Close of the displayed page has returned after one frame: the page
\* shown before it is displayed again and its 'root' frame is the last one
C15_Witness ==
    /\ call.op = "close" /\ call.done
    /\ call.ns \in DOMAIN catalog
    /\ get_page_id(catalog[call.ns], call.id) # None
    /\ \E a \in ClosePageIds :
          /\ a # get_page_id(catalog[call.ns], call.id)
          /\ Len(page_stack) >= 2
          /\ Last(page_stack) = Route(a)
          /\ page_stack[Len(page_stack) - 1] =
                Route(get_page_id(catalog[call.ns], call.id))
          /\ root_children = <<a>>
          /\ Last(published).event = "root"
          /\ Last(published).data = to_string(a)

(***************************************************************************)
(* C16: calls for a namespace that has no PageGroup.                       *)
(***************************************************************************)
\* the coordinator and what was published are as before the step
GuiUntouched ==
    /\ namespaces' = namespaces
    /\ catalog' = catalog
    /\ published' = published
    /\ rendVars' = rendVars

\* C16: UpdateData, UpdateState, MovePages and RemovePages addressed to a
\* namespace that is not in the catalog are no-ops: the namespace list, the
\* catalog with every PageGroup and the Renderer are left as they are, no
\* frame is published, and the call returns without an exception.
C16_UnknownNamespaceIsNoOp ==
    [][\A namespace \in Namespaces :
         namespace \notin DOMAIN catalog
         => /\ GuiUpdateData(namespace)
               => GuiUntouched /\ update_data(TheGUIManager, namespace).exc = None
            /\ GuiUpdateState(namespace)
               => GuiUntouched /\ update_state(TheGUIManager, namespace).exc = None
            /\ \A from_position \in GuiPositions, to_position \in GuiPositions :
                  GuiMovePages(namespace, from_position, to_position)
                  => /\ GuiUntouched
                     /\ move_pages(TheGUIManager, namespace, from_position,
                                   to_position).exc = None
            /\ \A position \in GuiPositions :
                  GuiRemovePages(namespace, position)
                  => /\ GuiUntouched
                     /\ remove_pages(TheGUIManager, namespace, position).exc = None]_vars

\* one of the four calls was made for a namespace without a PageGroup
\* while another namespace has a PageGroup with a page and a browser is
\* registered
C16_Witness ==
    /\ call.op \in {"update_data", "update_state", "move_pages", "remove_pages"}
    /\ call.ns \notin DOMAIN catalog
    /\ clients # <<>>
    /\ \E namespace \in DOMAIN catalog : catalog[namespace].page_ids # <<>>

(***************************************************************************)
(* C17: a page file that fails to load.                                    *)
(***************************************************************************)
\* C17: when the page file fails to load during InsertPages for a
\* namespace that had no catalog entry, the catalog has no entry for the
\* namespace afterwards and the page id is in no page list; the PageGroups
\* of the other namespaces and the namespace list are as before.  (The
\* load is reached when the position of the new page is resolved.)
C17_FailedLoadLeavesNoEntry ==
    [][\A namespace \in Namespaces, page_id \in GuiPageIds,
          position \in GuiPositions, glued \in BOOLEAN :
         (/\ namespace \notin DOMAIN catalog
          /\ InsertPages(namespace, page_id, position, TRUE, FALSE, glued))
         => /\ namespace \notin DOMAIN catalog'
            /\ \A other \in DOMAIN catalog' \ DOMAIN catalog :
                  page_id \notin Range(catalog'[other].page_ids)
            /\ \A other \in DOMAIN catalog : /\ other \in DOMAIN catalog'
                                              /\ catalog'[other] = catalog[other]
            /\ namespaces' = namespaces]_vars

\* a namespace has a PageGroup that lists a page id for which no
\* PageManager was built, and no call has activated anything in it
C17_Witness ==
    \E namespace \in DOMAIN catalog, page_id \in GuiPageIds :
        /\ page_id \in Range(catalog[namespace].page_ids)
        /\ page_id \notin DOMAIN catalog[namespace].pages
        /\ catalog[namespace].active_indexes = <<>>
        /\ call = NoCall

(***************************************************************************)
(* The bus client (src/src/pyhtmx_gui/gui_client.py), the status workers   *)
(* (src/src/pyhtmx_gui/status_handler.py) and termination (app.py).        *)
(***************************************************************************)
notClient == <<busVars, raceVars, pgVars, rendVars, showVars, splitVars, statVars, skillVars,
              call>>

\* the messages of the bus: one that Message.model_validate_json rejects,
\* session.set and session.delete of a property, and the system event
\* ovos.utterance.handled
BadFrame == [type |-> "bad", ns |-> None, prop |-> None]
StatusFrame == [type |-> "mycroft.events.triggered", ns |-> "system", prop |-> None]
Frames ==
    {BadFrame, StatusFrame}
    \cup [type : {"mycroft.session.set", "mycroft.session.delete"},
          ns : SessionNamespaces, prop : Properties]

\* Message.model_validate_json(response) returns
Decodes(frame) == frame.type # "bad"

TheClient == [session |-> session_mirror, statusq |-> statusq,
              htimer |-> htimer, g |-> TheGUIManager]

\* GUIClient.handle_session_set: the mirror is updated, then
\* GUIManager.update_data is called
handle_session_set(c, namespace, property) ==
    LET old == IF namespace \in DOMAIN c.session THEN c.session[namespace] ELSE {}
    IN [c EXCEPT !.session = MapPut(c.session, namespace, old \cup {property}),
                 !.g = update_data(c.g, namespace).g]

\* GUIClient.handle_session_delete
handle_session_delete(c, namespace, property) ==
    IF namespace \in DOMAIN c.session /\ property \in c.session[namespace]
    THEN [c EXCEPT !.session[namespace] = @ \ {property}]
    ELSE c

\* StatusHandler.process_event for ovos.utterance.handled without an
\* utterance: the event is queued for the utterance handler, and the
\* spinner handler's timer is reset with 8 seconds
process_event(c) ==
    [c EXCEPT !.statusq["utterance"] = Append(@, "ovos.utterance.handled"),
              !.htimer["spinner"] = TRUE]

\* GUIClient.process_message
process_message(c, frame) ==
    IF frame.type = "mycroft.session.set"
    THEN handle_session_set(c, frame.ns, frame.prop)
    ELSE IF frame.type = "mycroft.session.delete"
    THEN handle_session_delete(c, frame.ns, frame.prop)
    ELSE process_event(c)

\* where receive_message goes after a frame that did not decode, were the
\* exception to leave the loop
receive_next_uncaught(ok) == IF ok THEN "loop" ELSE "exited"

\* where receive_message goes after the body of its loop: the try catches
\* every Exception, logs it, and the while goes on
receive_next(ok) == "loop"

SetClient(c) ==
    /\ session_mirror' = c.session
    /\ statusq' = c.statusq
    /\ htimer' = c.htimer
    /\ SetGUIManager(c.g)

\* the bus starts to accept connections
BusUp ==
    /\ ~bus_up
    /\ bus_up' = TRUE
    /\ UNCHANGED <<terminated, cpc, ws, announced, rxpc, inbox, rxskipped,
                   session_mirror, statusq, wpc, hclose, htimer,
                   sessVars, guiVars, notClient>>

\* GUIClient.__init__: connect() returns the socket or None, listen()
\* starts the receive thread only for a socket, announce() sends only on a
\* socket
Connect ==
    /\ cpc = "start"
    /\ cpc' = "done"
    /\ ws' = IF bus_up THEN "open" ELSE "none"
    /\ rxpc' = IF bus_up THEN "loop" ELSE "none"
    /\ announced' = bus_up
    /\ UNCHANGED <<terminated, bus_up, inbox, rxskipped, session_mirror,
                   statusq, wpc, hclose, htimer, sessVars, guiVars, notClient>>

\* the bus sends a message on the open socket
BusSend(frame) ==
    /\ ws = "open"
    /\ Len(inbox) < MaxInbox
    /\ frame = StatusFrame =>
          Len(statusq["utterance"])
          + Cardinality({i \in 1 .. Len(inbox) : inbox[i] = StatusFrame}) < MaxStatus
    /\ inbox' = Append(inbox, frame)
    /\ UNCHANGED <<terminated, bus_up, cpc, ws, announced, rxpc, rxskipped,
                   session_mirror, statusq, wpc, hclose, htimer,
                   sessVars, guiVars, notClient>>

\* receive_message, the test of its while
RxCheck ==
    /\ rxpc = "loop"
    /\ rxpc' = IF terminated THEN "exited" ELSE "recv"
    /\ UNCHANGED <<terminated, bus_up, cpc, ws, announced, inbox, rxskipped,
                   session_mirror, statusq, wpc, hclose, htimer,
                   sessVars, guiVars, notClient>>

\* receive_message, the body of its loop: recv() raises on a closed
\* socket, blocks while no message is there, and returns the next one
\* otherwise; the message is decoded and dispatched
RxRecv ==
    /\ rxpc = "recv"
    /\ ws = "closed" \/ inbox # <<>>
    /\ IF ws = "closed"
       THEN /\ rxpc' = receive_next(FALSE)
            /\ UNCHANGED <<inbox, rxskipped, session_mirror, statusq, htimer,
                           guiVars>>
       ELSE /\ inbox' = Tail(inbox)
            /\ rxpc' = receive_next(Decodes(Head(inbox)))
            /\ IF Decodes(Head(inbox))
               THEN /\ SetClient(process_message(TheClient, Head(inbox)))
                    /\ UNCHANGED rxskipped
               ELSE /\ rxskipped' = TRUE
                    /\ UNCHANGED <<session_mirror, statusq, htimer, guiVars>>
    /\ UNCHANGED <<terminated, bus_up, cpc, ws, announced, wpc, hclose,
                   sessVars, notClient>>

\* StatusEventHandler.handle_events, one round of its loop: the test of
\* self._close, then get(block=False) and the handling function, whose
\* exceptions (queue.Empty included) are dropped
WorkerStep(h) ==
    /\ wpc[h] = "loop"
    /\ IF hclose[h]
       THEN /\ wpc' = [wpc EXCEPT ![h] = "exited"]
            /\ UNCHANGED statusq
       ELSE /\ statusq' = [statusq EXCEPT ![h] = IF @ = <<>> THEN @ ELSE Tail(@)]
            /\ UNCHANGED wpc
    /\ UNCHANGED <<terminated, bus_up, cpc, ws, announced, rxpc, inbox,
                   rxskipped, session_mirror, hclose, htimer,
                   sessVars, guiVars, notClient>>

\* the Timer of a handler runs reset_status: self._timer = None
TimerFire(h) ==
    /\ htimer[h]
    /\ htimer' = [htimer EXCEPT ![h] = FALSE]
    /\ UNCHANGED <<terminated, bus_up, cpc, ws, announced, rxpc, inbox,
                   rxskipped, session_mirror, statusq, wpc, hclose,
                   sessVars, guiVars, notClient>>

\* termination_handler on the first SIGINT: termination_event.set() and
\* global_client.close(), which closes the socket if there is one
Terminate ==
    /\ cpc = "done"
    /\ ~terminated
    /\ terminated' = TRUE
    /\ ws' = IF ws = "open" THEN "closed" ELSE ws
    /\ UNCHANGED <<bus_up, cpc, announced, rxpc, inbox, rxskipped,
                   session_mirror, statusq, wpc, hclose, htimer,
                   sessVars, guiVars, notClient>>

\* check_disconnected: termination_event.wait returns True and the while
\* ends
SweepExit ==
    /\ swpc = "wait"
    /\ terminated
    /\ swpc' = "exited"
    /\ UNCHANGED <<clients, sessions, now, swNow, swPos, swUsed, disconnected,
                   swLast, getAt, pinged, req, notSess>>

NextClient ==
    \/ BusUp
    \/ Connect
    \/ \E frame \in Frames : BusSend(frame)
    \/ RxCheck
    \/ RxRecv
    \/ \E h \in Handlers : WorkerStep(h)
    \/ \E h \in Handlers : TimerFire(h)
    \/ Terminate
    \/ Tick
    \/ SweepWake
    \/ SweepScan
    \/ SweepExit

SpecClient == Init /\ [][NextClient]_vars

(***************************************************************************)
(* C18: a bus frame that fails to decode.                                  *)
(***************************************************************************)
\* C18: a bus frame that fails to decode is skipped without side effects:
\* the coordinator, the Renderer, the session mirror and the status queues
\* and timers are as before, nothing is published, the socket stays open
\* and the receive loop is back at the test of its while; and a frame that
\* decodes is dispatched as process_message dispatches it, whatever was
\* skipped before.
C18_UndecodableFrameSkipped ==
    [][(RxRecv /\ ws = "open")
       => IF Decodes(Head(inbox))
          THEN /\ session_mirror' = process_message(TheClient, Head(inbox)).session
               /\ statusq' = process_message(TheClient, Head(inbox)).statusq
               /\ rxpc' = "loop"
          ELSE /\ UNCHANGED <<session_mirror, statusq, htimer, guiVars, rendVars,
                              published>>
               /\ ws' = "open"
               /\ rxpc' = "loop"]_vars

\* a frame was skipped, the loop went on, and a session.set that came
\* after it is in the session mirror
C18_Witness ==
    /\ rxskipped
    /\ ws = "open"
    /\ rxpc \in {"loop", "recv"}
    /\ inbox = <<>>
    /\ \E namespace \in DOMAIN session_mirror : session_mirror[namespace] # {}

(***************************************************************************)
(* The client with its threads scheduled: the constructor, the receive     *)
(* thread, the sweeper, the status workers and the timers each get to run  *)
(* when they can; the bus, the clock and the SIGINT are the world's.       *)
(***************************************************************************)
SpecClientFair ==
    /\ SpecClient
    /\ WF_vars(Connect)
    /\ WF_vars(RxCheck)
    /\ WF_vars(RxRecv)
    /\ \A h \in Handlers : WF_vars(WorkerStep(h))
    /\ \A h \in Handlers : WF_vars(TimerFire(h))
    /\ WF_vars(SweepWake)
    /\ WF_vars(SweepScan)
    /\ WF_vars(SweepExit)

\* the client is connected, has announced itself and its receive thread
\* runs
Connected == ws = "open" /\ announced /\ rxpc \in {"loop", "recv"}

\* C19: if the initial connection to the bus fails, the client keeps
\* retrying: once the bus is reachable (and stays so, and no termination
\* is asked for) the client eventually connects, announces itself and
\* processes inbound frames.
C19_ReconnectsWhenBusReachable ==
    (cpc = "done" /\ ws = "none" /\ bus_up) ~> (Connected \/ terminated)

\* the constructor ran while the bus was down, the bus is reachable now,
\* and the client has no socket and no receive thread
C19_Witness ==
    /\ cpc = "done"
    /\ bus_up
    /\ ~terminated
    /\ ws = "none"
    /\ rxpc = "none"
    /\ ~announced

\* C20: once the termination signal is set, the session sweeper loop, the
\* bus receive loop and each of the three status worker loops eventually
\* exit.
C20_LoopsExitOnTermination ==
    terminated ~> (/\ swpc \in {"exited", "dead"}
                   /\ rxpc \in {"none", "exited"}
                   /\ \A h \in Handlers : wpc[h] = "exited")

\* termination was signalled, the sweeper and the receive loop have
\* exited, and the three status workers are still in their loops
C20_Witness ==
    /\ terminated
    /\ swpc = "exited"
    /\ rxpc = "exited"
    /\ \A h \in Handlers : wpc[h] = "loop" /\ ~hclose[h]

(***************************************************************************)
(* Floats (the durations of status_handler.py and utils.py): a float is    *)
(* m * 2^e with a significand m of MantissaBits bits, or 0.0; every        *)
(* operation returns the float nearest to the exact result, ties to the    *)
(* even significand.                                                       *)
(***************************************************************************)
RECURSIVE Bits(_)
Bits(N) == IF N = 0 THEN 0 ELSE 1 + Bits(N \div 2)

\* the float nearest to N * 2^e
RoundInt(N, e) ==
    IF N = 0 THEN Zero
    ELSE LET b == Bits(N)
         IN IF b <= MantissaBits
            THEN [m |-> N * 2^(MantissaBits - b), e |-> e - (MantissaBits - b)]
            ELSE LET k == b - MantissaBits
                     q == N \div 2^k
                     r == N % 2^k
                     half == 2^(k - 1)
                     m == IF r > half \/ (r = half /\ q % 2 = 1)
                          THEN q + 1 ELSE q
                 IN IF m = 2^MantissaBits
                    THEN [m |-> 2^(MantissaBits - 1), e |-> e + k + 1]
                    ELSE [m |-> m, e |-> e + k]

\* float * int, the int being exact as a float
FloatTimesInt(a, n) == RoundInt(a.m * n, a.e)

\* float / int: the quotient carried to GuardBits more bits, with a sticky
\* last bit for what is left, then rounded
FloatDivInt(a, n) ==
    LET N == a.m * 2^GuardBits
        q == N \div n
        sticky == IF N % n = 0 THEN 0 ELSE 1
    IN RoundInt(2 * q + sticky, a.e - GuardBits - 1)

\* float + float
FloatAdd(a, b) ==
    IF a.m = 0 THEN b
    ELSE IF b.m = 0 THEN a
    ELSE LET emin == IF a.e < b.e THEN a.e ELSE b.e
         IN RoundInt(a.m * 2^(a.e - emin) + b.m * 2^(b.e - emin), emin)

\* sum() of a list of floats: from 0, left to right
RECURSIVE FloatSum(_)
FloatSum(fs) ==
    IF fs = <<>> THEN Zero
    ELSE FloatAdd(FloatSum(SubSeq(fs, 1, Len(fs) - 1)), fs[Len(fs)])

(***************************************************************************)
(* The utterance splitter (src/src/pyhtmx_gui/utils.py).  A text is the    *)
(* sequence of its words, joined by single spaces; of a word the model     *)
(* keeps its length and whether its last character is one of '.:,;?!-'.    *)
(***************************************************************************)
Words == [len : WordLengths, term : BOOLEAN]
Utterances == UNION {[1 .. n -> Words] : n \in 1 .. MaxWords}

RECURSIVE SumLen(_)
SumLen(words) ==
    IF words = <<>> THEN 0 ELSE words[1].len + SumLen(Tail(words))

\* len() of the text
TextLen(words) ==
    IF words = <<>> THEN 0 ELSE SumLen(words) + Len(words) - 1

\* a piece the splitter returns: its words, whether a '.' was appended,
\* and the trailing ' ' every piece gets
PieceLen(piece) ==
    TextLen(piece.words) + (IF piece.dot THEN 1 ELSE 0) + 1

\* format_utterance of a str: the sentences are joined again and the text
\* gets a final '.' unless it ends in a character of '.:,;?!-'
format_utterance(words) ==
    IF words = <<>> THEN <<>>
    ELSE IF words[Len(words)].term THEN words
    ELSE [words EXCEPT ![Len(words)] = [len |-> @.len + 1, term |-> TRUE]]

\* the last lines of split_utterance: a '.' unless the group ends in a
\* terminator, and the ' '
Terminated(word_group) ==
    [words |-> word_group, dot |-> ~word_group[Len(word_group)].term]

\* the for loop of split_utterance from word i on
RECURSIVE SplitLoop(_, _, _, _, _, _)
SplitLoop(words, i, split_groups, word_group, length, max_length) ==
    IF i > Len(words)
    THEN IF word_group # <<>>
         THEN Append(split_groups, Terminated(word_group))
         ELSE split_groups
    ELSE LET word == words[i]
             add_len == (IF word_group # <<>> THEN 1 ELSE 0) + word.len
         IN IF length + add_len <= max_length
            THEN SplitLoop(words, i + 1, split_groups,
                           Append(word_group, word), length + add_len,
                           max_length)
            ELSE SplitLoop(words, i + 1,
                           Append(split_groups,
                                  [words |-> word_group, dot |-> FALSE]),
                           <<word>>, word.len, max_length)

split_utterance(utterance, max_length) ==
    IF utterance = <<>> THEN <<>>
    ELSE IF TextLen(utterance) <= max_length
    THEN <<Terminated(utterance)>>
    ELSE SplitLoop(utterance, 1, <<>>, <<>>, 0, max_length)

RECURSIVE SumPieceLen(_)
SumPieceLen(pieces) ==
    IF pieces = <<>> THEN 0
    ELSE PieceLen(pieces[1]) + SumPieceLen(Tail(pieces))

\* generate_split_utterance with utt_length = len(utterance), the length
\* of the text that was split
generate_split_utterance_by_text(utterance, duration, max_length) ==
    LET utterance_sentences == split_utterance(utterance, max_length)
        utt_length == TextLen(utterance)
    IN [i \in 1 .. Len(utterance_sentences) |->
          [piece |-> utterance_sentences[i],
           duration |-> FloatDivInt(
               FloatTimesInt(duration, PieceLen(utterance_sentences[i])),
               utt_length)]]

generate_split_utterance(utterance, duration, max_length) ==
    LET utterance_sentences == split_utterance(utterance, max_length)
        utt_length == SumPieceLen(utterance_sentences)
    IN [i \in 1 .. Len(utterance_sentences) |->
          [piece |-> utterance_sentences[i],
           duration |-> FloatDivInt(
               FloatTimesInt(duration, PieceLen(utterance_sentences[i])),
               utt_length)]]

\* the durations an event carries or calculate_duration returns
Durations == {[m |-> 512, e |-> -9], [m |-> 821, e |-> -9],
              [m |-> 1023, e |-> -9], [m |-> 768, e |-> -7]}

notSplit == <<busVars, raceVars, pgVars, sessVars, rendVars, guiVars, showVars,
             clientVars, statVars, skillVars, call>>

\* StatusHandler.process_event, its lines for an utterance, called once:
\* the text is formatted and split, and every piece is queued with
\* persistence = split_duration
GenerateSplit(utterance, duration) ==
    LET formatted_utterance == format_utterance(utterance)
        pieces == generate_split_utterance(formatted_utterance, duration,
                                           MaxLength)
    IN /\ su_utterance = <<>>
       /\ su_utterance' = formatted_utterance
       /\ su_duration' = duration
       /\ su_split' = pieces
       /\ su_persistence' = [i \in 1 .. Len(pieces) |-> pieces[i].duration]
       /\ UNCHANGED notSplit

NextSplit ==
    \E utterance \in Utterances, duration \in Durations :
        GenerateSplit(utterance, duration)

SpecSplit == Init /\ [][NextSplit]_vars

(***************************************************************************)
(* C21: the length of the pieces.                                          *)
(***************************************************************************)
\* C21: every piece the splitter returns for a formatted utterance is at
\* most 60 characters long, the appended terminator and the trailing space
\* counted, also when the utterance has a word of more than 60 characters.
C21_PiecesAtMostMaxLength ==
    \A i \in 1 .. Len(su_split) : PieceLen(su_split[i].piece) <= MaxLength

\* an utterance with a word of more than 60 characters was split
C21_Witness ==
    /\ \E i \in 1 .. Len(su_utterance) : su_utterance[i].len > MaxLength
    /\ su_split # <<>>

(***************************************************************************)
(* C22: the durations of the pieces.                                       *)
(***************************************************************************)
PieceDurations == [i \in 1 .. Len(su_split) |-> su_split[i].duration]

\* the share of piece i: duration * len(piece) / utt_length
Share(i) ==
    FloatDivInt(FloatTimesInt(su_duration, PieceLen(su_split[i].piece)),
                SumPieceLen([j \in 1 .. Len(su_split) |-> su_split[j].piece]))

\* |a - b| <= k units in the last place of b
Within(a, b, k) ==
    LET emin == IF a.e < b.e THEN a.e ELSE b.e
        x == a.m * 2^(a.e - emin)
        y == b.m * 2^(b.e - emin)
    IN (IF x < y THEN y - x ELSE x - y) <= k * 2^(b.e - emin)

\* C22: for a non-empty formatted utterance and a duration d, the
\* durations given to the pieces sum to d, each being d times the length
\* of its piece divided by the summed length of the pieces, and so do the
\* persistence delays queued for the pieces.
C22_DurationsSumToTotal ==
    su_utterance # <<>>
    => /\ \A i \in 1 .. Len(su_split) : su_split[i].duration = Share(i)
       /\ FloatSum(PieceDurations) = su_duration
       /\ FloatSum(su_persistence) = su_duration

\* C22, amended: the duration of each piece is the float d * len(piece) /
\* utt_length, the persistence queued for a piece is that duration, and
\* the sum of the durations is d up to the rounding of the floats: it is
\* within two units in the last place of d per piece.
C22_DurationsSumToTotalRounded ==
    su_utterance # <<>>
    => /\ su_split # <<>>
       /\ \A i \in 1 .. Len(su_split) : su_split[i].duration = Share(i)
       /\ su_persistence = PieceDurations
       /\ Within(FloatSum(PieceDurations), su_duration, 2 * Len(su_split))
       /\ Within(FloatSum(su_persistence), su_duration, 2 * Len(su_split))

\* an utterance was split into several pieces whose durations do not add
\* up to the duration exactly
C22_Witness ==
    /\ Len(su_split) > 1
    /\ FloatSum(PieceDurations) # su_duration

(***************************************************************************)
(* C23: an update of the inner content alone.                              *)
(***************************************************************************)
\* C23: for a binding whose attribute list is exactly {inner_content}, an
\* update_attributes call made while its page is shown publishes, for the
\* bound element, one frame whose event id is the parameter id and whose
\* data is the formatted text itself, not the outer HTML of the element.
C23_InnerContentPublishesText ==
    [][\A page_id \in RendererPageIds \cup {"status"}, text \in InnerContents :
         (/\ UpdateAttributes(page_id, text)
          /\ Last(page_stack) = Route(page_id)
          /\ clients # <<>>
          /\ update_attributes(TheRenderer, Route(page_id), text).data # None)
         => /\ Len(published') = Len(published) + 1
            /\ Last(published').event = ParameterId(Route(page_id))
            /\ Last(published').data = text]_vars

\* the element of the shown page has got a text by an update, and the
\* frame published last carries the parameter id of that page
C23_Witness ==
    /\ published # <<>>
    /\ Last(published).event = ParameterId(Last(page_stack))
    /\ \E namespace \in DOMAIN group_catalog :
          /\ Last(page_stack) \in DOMAIN group_catalog[namespace].pages
          /\ group_catalog[namespace].pages[Last(page_stack)].text \in InnerContents

(***************************************************************************)
(* The bring-up of a namespace by the bus client: session data first, the  *)
(* page list after it.                                                     *)
(***************************************************************************)
\* GUIClient.handle_gui_list_insert for one page: the session data is what
\* the mirror holds for the namespace, {} when it holds nothing
handle_gui_list_insert(c, r, namespace, page_id, position, resolved, built, glued) ==
    LET session_data == IF namespace \in DOMAIN c.session
                        THEN c.session[namespace] ELSE {}
    IN insert_pages_data(c.g, r, namespace, page_id, position, session_data,
                         resolved, built, glued)

\* a mycroft.session.set frame is dispatched
SessionSet(namespace, property) ==
    /\ SetClient(handle_session_set(TheClient, namespace, property))
    /\ call' = NoCall
    /\ UNCHANGED <<terminated, bus_up, cpc, ws, announced, rxpc, inbox,
                   rxskipped, wpc, hclose, busVars, raceVars, pgVars,
                   sessVars, rendVars, showVars, splitVars, statVars, skillVars>>

\* a mycroft.gui.list.insert frame is dispatched
GuiListInsert(namespace, page_id, position, resolved, built, glued) ==
    /\ Len(published) < MaxFrames
    /\ LET res == handle_gui_list_insert(TheClient, TheRenderer, namespace,
                                         page_id, position, resolved, built,
                                         glued) IN
       /\ SetGUIManager(res.g)
       /\ SetRenderer(res.r)
       /\ update(res.data, "root")
       /\ call' = NoCall
    /\ UNCHANGED notGui

NextBringUp ==
    \/ \E namespace \in Namespaces, property \in Properties :
          SessionSet(namespace, property)
    \/ \E namespace \in Namespaces, page_id \in GuiPageIds,
          position \in GuiPositions, resolved \in BOOLEAN, built \in BOOLEAN,
          glued \in BOOLEAN :
          GuiListInsert(namespace, page_id, position, resolved, built, glued)
    \/ \E namespace \in Namespaces, position \in GuiPositions :
          InsertNamespace(namespace, position)
    \/ \E c \in GuiClients : RegisterClient(c)
    \/ \E c \in GuiClients : Deregister(c)

SpecBringUp == Init /\ [][NextBringUp]_vars

\* C24: session data that session.set brings for a namespace before any
\* page of the namespace exists publishes no frame and is kept in the
\* session mirror; a page inserted later in that namespace is built with
\* the data kept so far, and the insert publishes the first 'root' frame,
\* the page's HTML.
C24_EarlySessionDataReachesPage ==
    [][/\ \A namespace \in Namespaces, property \in Properties :
            (SessionSet(namespace, property) /\ namespace \notin DOMAIN catalog)
            => /\ published' = published
               /\ namespace \in DOMAIN session_mirror'
               /\ property \in session_mirror'[namespace]
       /\ \A namespace \in Namespaces, page_id \in GuiPageIds,
             position \in GuiPositions, resolved \in BOOLEAN,
             built \in BOOLEAN, glued \in BOOLEAN :
            (/\ GuiListInsert(namespace, page_id, position, resolved, built,
                              glued)
             /\ built
             /\ namespace \notin DOMAIN catalog
             /\ namespace \in DOMAIN session_mirror
             /\ clients # <<>>)
            => /\ namespace \in DOMAIN catalog'
               /\ page_id \in DOMAIN catalog'[namespace].pages
               /\ catalog'[namespace].pages[page_id].session_data
                     = session_mirror[namespace]
               /\ Len(published') = Len(published) + 1
               /\ Last(published').event = "root"
               /\ Last(published').data = to_string(page_id)]_vars

\* session data came before the page, the page was built with it, and no
\* frame has been published
C24_Witness ==
    \E namespace \in DOMAIN catalog, page_id \in GuiPageIds :
        /\ namespace \in DOMAIN session_mirror
        /\ session_mirror[namespace] # {}
        /\ page_id \in DOMAIN catalog[namespace].pages
        /\ catalog[namespace].pages[page_id].session_data
              = session_mirror[namespace]
        /\ clients # <<>>
        /\ published = <<>>

(***************************************************************************)
(* The status handler (src/src/pyhtmx_gui/status_handler.py): three        *)
(* StatusEventHandlers, each with a queue, a worker thread and a reset     *)
(* Timer, fed by StatusHandler.process_event.  Time is in ticks of one     *)
(* second; the timeouts are whole seconds.                                 *)
(***************************************************************************)
notStat == <<busVars, raceVars, pgVars, sessVars, rendVars, guiVars, showVars,
            clientVars, splitVars,
            skillVars, call>>

UNKNOWN_SKILL == "skill-ovos-fallback-unknown.openvoiceos"

\* the EventTypes that reach process_event (RECORD_BEGIN stands for those
\* that process_event does nothing with)
EventTypes ==
    {"WAKEWORD", "RECORD_BEGIN", "UTTERANCE", "UTTERANCE_START",
     "UTTERANCE_HANDLED", "UTTERANCE_CANCELLED", "UTTERANCE_END",
     "AUDIO_OUTPUT_START", "AUDIO_OUTPUT_END", "SKILL_HANDLER_START",
     "SKILL_HANDLER_COMPLETE", "INTENT_FAILURE"}

\* event_data: no utterance (<<>>), one of one piece, one of two pieces; no
\* duration (0.0) or 3.0; what calculate_duration returns for the text
StatusUtterances ==
    {<<>>, <<[len |-> 30, term |-> FALSE]>>,
     <<[len |-> 30, term |-> FALSE], [len |-> 30, term |-> FALSE],
       [len |-> 30, term |-> TRUE]>>}
StatusDurations == {Zero, [m |-> 768, e |-> -8]}
calculate_duration(text) == [m |-> 821, e |-> -9]
SkillIds == {None, UNKNOWN_SKILL}
Exceptions == {None, "error"}
\* the event_data of the events: a duration only with an utterance, a
\* fallback skill id or an exception or neither
EventData ==
    {data \in [utterance : StatusUtterances, duration : StatusDurations,
               skill_id : SkillIds, exception : Exceptions] :
        /\ data.duration # Zero => data.utterance # <<>>
        /\ data.skill_id = None \/ data.exception = None}

\* the persistence defaults 1.0 and 0.5
One == [m |-> 512, e |-> -9]
Half == [m |-> 512, e |-> -10]

RESET_EVENT_MAP(h) ==
    IF h = "speech" THEN "SPEAK"
    ELSE IF h = "utterance" THEN "UTTERANCE"
    ELSE "UTTERANCE_END"

\* StatusEventHandler._timeout as StatusHandler.__init__ sets it
HandlerTimeout(h) == IF h = "spinner" THEN 20 ELSE 6

\* StatusEventHandler._reset_data: {status_event: StatusUtterance()}, and
\* {} for the spinner
ResetData(h) ==
    IF h = "spinner" THEN <<>>
    ELSE <<[key |-> h, text |-> <<>>, duration |-> Zero]>>

\* StatusBar.get_spinner_class
get_spinner_class(ovos_event) ==
    IF ovos_event \in {"WAKEWORD", "SKILL_HANDLER_START"} THEN "visible"
    ELSE IF ovos_event = "UTTERANCE_HANDLED" THEN "success"
    ELSE IF ovos_event = "UTTERANCE_CANCELLED" THEN "cancelled"
    ELSE IF ovos_event \in {"UTTERANCE_UNDETECTED", "INTENT_FAILURE"}
    THEN "failure"
    ELSE IF ovos_event = "UTTERANCE_END" THEN "fade-out"
    ELSE None

\* time.sleep(persistence) in ticks: the sleep lasts at least persistence
SleepTicks(f) ==
    IF f.m = 0 THEN 0
    ELSE IF f.e >= 0 THEN f.m * 2^f.e
    ELSE (f.m + 2^(0 - f.e) - 1) \div 2^(0 - f.e)

\* the longest a wait of the worker is counted
MaxSince == 3

\* the longest the time since _timestamp is counted: one more than the
\* longest timeout a Timer alive compares it with
RECURSIVE MaxTimeout(_)
MaxTimeout(timers) ==
    IF timers = <<>> THEN 0
    ELSE LET m == MaxTimeout(Tail(timers))
         IN IF timers[1].timeout > m THEN timers[1].timeout ELSE m

TheStatus == [queue |-> sh_queue, timestamp |-> sh_timestamp,
              timers |-> sh_timers, tnone |-> sh_tnone,
              spinner |-> sh_spinner, last |-> sh_last]

SetStatus(S) ==
    /\ sh_queue' = S.queue
    /\ sh_timestamp' = S.timestamp
    /\ sh_timers' = S.timers
    /\ sh_tnone' = S.tnone
    /\ sh_spinner' = S.spinner
    /\ sh_last' = S.last

\* queue_event
queue_event(q, h, event_name, event_data, timeout, persistence) ==
    [q EXCEPT ![h] = Append(@, [event |-> event_name, data |-> event_data,
                                timeout |-> timeout,
                                persistence |-> persistence])]

\* the table of spinner timeouts with one timeout for every event
SpinnerTimeout_flat(event_name) ==
    IF event_name \in {"WAKEWORD", "SKILL_HANDLER_START", "AUDIO_OUTPUT_START",
                       "AUDIO_OUTPUT_END", "SKILL_HANDLER_COMPLETE",
                       "UTTERANCE_HANDLED", "UTTERANCE_CANCELLED"}
    THEN 20
    ELSE 0

\* the table of spinner timeouts at the end of process_event
SpinnerTimeout(event_name) ==
    IF event_name = "WAKEWORD" THEN 20
    ELSE IF event_name \in {"SKILL_HANDLER_START", "AUDIO_OUTPUT_START"} THEN 60
    ELSE IF event_name = "AUDIO_OUTPUT_END" THEN 10
    ELSE IF event_name \in {"SKILL_HANDLER_COMPLETE", "UTTERANCE_HANDLED"} THEN 8
    ELSE IF event_name = "UTTERANCE_CANCELLED" THEN 5
    ELSE 0

\* the events whose skill id and exception process_event looks at
Downgraded ==
    {"WAKEWORD", "SKILL_HANDLER_START", "SKILL_HANDLER_COMPLETE",
     "UTTERANCE_HANDLED", "UTTERANCE_CANCELLED", "AUDIO_OUTPUT_START",
     "AUDIO_OUTPUT_END"}

\* the events process_event queues when they come without an utterance
Queued ==
    {"SKILL_HANDLER_START", "UTTERANCE_HANDLED", "UTTERANCE_CANCELLED",
     "UTTERANCE_UNDETECTED", "INTENT_FAILURE", "UTTERANCE_END"}

\* the queue items of the pieces of an utterance, in the order of the for
\* loop of process_event
PieceItems(event_name, status_event, pieces) ==
    [i \in 1 .. Len(pieces) |->
       [event |-> event_name,
        data |-> <<[key |-> status_event, text |-> <<pieces[i].piece>>,
                    duration |-> pieces[i].duration]>>,
        timeout |-> HandlerTimeout(status_event),
        persistence |-> pieces[i].duration]]

\* generate_split_utterance(formatted_utterance, duration) for the texts
\* and durations of the events
SplitOf ==
    [utterance \in StatusUtterances \ {<<>>},
     d \in (StatusDurations \ {Zero}) \cup {calculate_duration(<<>>)} |->
        generate_split_utterance(format_utterance(utterance), d, MaxLength)]

\* process_event with every piece queued on the speech handler
StatusHandler_process_event_speech(q, event_name, utterance, duration, skill_id, exception) ==
    LET formatted_utterance == format_utterance(utterance)
        d == IF duration # Zero THEN duration
             ELSE calculate_duration(formatted_utterance)
        items == IF utterance = <<>> THEN <<>>
                 ELSE PieceItems(event_name, "speech", SplitOf[utterance, d])
    IN [queue |-> [q EXCEPT !["speech"] = @ \o items], timeout |-> 0]

\* StatusHandler.process_event: the queues it leaves and the timeout it
\* resets the spinner's timer with (0 when it does not)
StatusHandler_process_event(q, event_name, utterance, duration, skill_id, exception) ==
    LET status_event == IF event_name = "UTTERANCE_START" THEN "speech"
                        ELSE "utterance"
        formatted_utterance == format_utterance(utterance)
        d == IF duration # Zero THEN duration
             ELSE calculate_duration(formatted_utterance)
        items == IF utterance = <<>> THEN <<>>
                 ELSE PieceItems(event_name, status_event,
                                 SplitOf[utterance, d])
        q1 == [q EXCEPT ![status_event] = @ \o items]
        data == IF items = <<>> THEN <<>> ELSE items[Len(items)].data
        persistence1 == IF items # <<>> THEN items[Len(items)].persistence
                        ELSE IF event_name = "UTTERANCE_START" THEN One
                        ELSE Half
        undetected == /\ event_name \in Downgraded
                      /\ skill_id = UNKNOWN_SKILL \/ exception # None
        event2 == IF undetected THEN "UTTERANCE_UNDETECTED" ELSE event_name
        persistence2 == IF event_name \in Downgraded THEN Zero
                        ELSE persistence1
        q2 == IF event2 \in Queued
              THEN queue_event(q1, status_event, event2, data, 0, persistence2)
              ELSE q1
    IN IF utterance # <<>>
          /\ event_name \notin {"WAKEWORD", "UTTERANCE", "UTTERANCE_START"}
       THEN [queue |-> q, timeout |-> 0]
       ELSE IF utterance # <<>> /\ event_name # "WAKEWORD"
       THEN [queue |-> q1, timeout |-> 0]
       ELSE [queue |-> q2, timeout |-> SpinnerTimeout(event2)]

\* Timer.cancel() ends a Timer that still waits; one whose function runs
\* already is not stopped
StillAlive(timer) == ~(timer.ref /\ ~timer.fired)

Unreferenced(timers) ==
    [i \in 1 .. Len(timers) |-> [timers[i] EXCEPT !.ref = FALSE]]

\* StatusEventHandler.reset_timer, under _timer_lock
reset_timer(S, h, timeout) ==
    LET t == IF timeout # 0 THEN timeout ELSE HandlerTimeout(h)
        kept == IF S.tnone[h] THEN S.timers[h]
                ELSE SelectSeq(S.timers[h], StillAlive)
    IN [S EXCEPT !.timers[h] = Append(Unreferenced(kept),
                                      [timeout |-> t, waited |-> 0,
                                       fired |-> FALSE, ref |-> TRUE]),
                 !.tnone[h] = FALSE,
                 !.timestamp[h] = 0]

\* the handling function, GUIManager.update_status: ok is whether it
\* returns; the class of the spinner changes when it does and the status
\* bar has a class for the event
Handle(S, by, h, ovos_event, data, ok) ==
    [S EXCEPT !.last = [by |-> by, handler |-> h, event |-> ovos_event,
                        raised |-> ~ok],
              !.spinner = IF ok /\ get_spinner_class(ovos_event) # None
                          THEN get_spinner_class(ovos_event) ELSE @]

\* reset_status without the test of the elapsed time
reset_status_unchecked(S, h, i, ok) ==
    LET rest == RemoveAt(S.timers[h], i)
        called == Handle(S, "timer", h, RESET_EVENT_MAP(h), ResetData(h), ok)
    IN IF ok
       THEN [called EXCEPT !.timers[h] = Unreferenced(rest),
                           !.tnone[h] = TRUE,
                           !.timestamp[h] = -1]
       ELSE [called EXCEPT !.timers[h] = rest]

\* StatusEventHandler.reset_status, run by Timer i of handler h under
\* _timer_lock: an exception of the handling function leaves the method
\* before _timestamp and _timer are reset
reset_status(S, h, i, ok) ==
    LET timer == S.timers[h][i]
        rest == RemoveAt(S.timers[h], i)
        called == Handle(S, "timer", h, RESET_EVENT_MAP(h), ResetData(h), ok)
    IN IF S.timestamp[h] >= 0 /\ S.timestamp[h] > timer.timeout
       THEN IF ok
            THEN [called EXCEPT !.timers[h] = Unreferenced(rest),
                                !.tnone[h] = TRUE,
                                !.timestamp[h] = -1]
            ELSE [called EXCEPT !.timers[h] = rest]
       ELSE [S EXCEPT !.timers[h] = rest]

\* a system event reaches StatusHandler.process_event
ProcessEvent(event_name, utterance, duration, skill_id, exception) ==
    /\ sh_n < MaxEvents
    /\ sh_n' = sh_n + 1
    /\ LET res == StatusHandler_process_event(sh_queue, event_name, utterance,
                                              duration, skill_id, exception)
           S1 == [TheStatus EXCEPT !.queue = res.queue]
       IN SetStatus(IF res.timeout # 0
                    THEN reset_timer(S1, "spinner", res.timeout) ELSE S1)
    /\ UNCHANGED <<sh_wpc, sh_sleep, sh_since, sh_lastp, notStat>>

\* handle_events, one round with an item in the queue: the handling
\* function, reset_timer if the item has a timeout, the sleep if it has a
\* persistence; an exception of the handling function skips both
StatusWorkerStep(h, ok) ==
    /\ sh_wpc[h] = "loop"
    /\ sh_queue[h] # <<>>
    /\ LET item == Head(sh_queue[h])
           S1 == Handle([TheStatus EXCEPT !.queue[h] = Tail(@)], "worker", h,
                        item.event, item.data, ok)
           sleeps == ok /\ item.persistence # Zero
       IN /\ SetStatus(IF ok /\ item.timeout # 0
                       THEN reset_timer(S1, h, item.timeout) ELSE S1)
          /\ sh_wpc' = [sh_wpc EXCEPT ![h] = IF sleeps THEN "sleep" ELSE "loop"]
          /\ sh_sleep' = [sh_sleep EXCEPT
                            ![h] = IF sleeps THEN SleepTicks(item.persistence)
                                   ELSE 0]
          /\ sh_since' = [sh_since EXCEPT ![h] = 0]
          /\ sh_lastp' = [sh_lastp EXCEPT ![h] = SleepTicks(item.persistence)]
    /\ UNCHANGED <<sh_n, notStat>>

\* time.sleep(persistence) returns
StatusWorkerWake(h) ==
    /\ sh_wpc[h] = "sleep"
    /\ sh_sleep[h] = 0
    /\ sh_wpc' = [sh_wpc EXCEPT ![h] = "loop"]
    /\ UNCHANGED <<sh_queue, sh_sleep, sh_since, sh_lastp, sh_timestamp,
                   sh_timers, sh_tnone, sh_spinner, sh_last, sh_n, notStat>>

\* the wait of a Timer ends: it began after _timestamp was read, so more
\* than the timeout has elapsed; the Timer goes on to call reset_status
StatusTimerExpire(h, i) ==
    /\ i \in 1 .. Len(sh_timers[h])
    /\ ~sh_timers[h][i].fired
    /\ sh_timers[h][i].waited > sh_timers[h][i].timeout
    /\ sh_timers' = [sh_timers EXCEPT ![h][i].fired = TRUE]
    /\ UNCHANGED <<sh_queue, sh_wpc, sh_sleep, sh_since, sh_lastp,
                   sh_timestamp, sh_tnone, sh_spinner, sh_last, sh_n, notStat>>

\* the Timer runs reset_status
StatusTimerRun(h, i, ok) ==
    /\ i \in 1 .. Len(sh_timers[h])
    /\ sh_timers[h][i].fired
    /\ SetStatus(reset_status(TheStatus, h, i, ok))
    /\ UNCHANGED <<sh_wpc, sh_sleep, sh_since, sh_lastp, sh_n, notStat>>

Minimum(a, b) == IF a < b THEN a ELSE b

\* the clock advances by dt seconds; a Timer that runs reset_status gets
\* the lock within the tick
Advance(dt) ==
    /\ \A h \in Handlers :
          \A i \in 1 .. Len(sh_timers[h]) : ~sh_timers[h][i].fired
    /\ sh_timestamp' = [h \in Handlers |->
                          IF sh_timestamp[h] = -1 THEN -1
                          ELSE Minimum(sh_timestamp[h] + dt,
                                       MaxTimeout(sh_timers[h]) + 1)]
    /\ sh_timers' = [h \in Handlers |->
                       [i \in 1 .. Len(sh_timers[h]) |->
                          [sh_timers[h][i] EXCEPT
                             !.waited = Minimum(@ + dt,
                                                sh_timers[h][i].timeout + 1)]]]
    /\ sh_sleep' = [h \in Handlers |->
                      IF sh_sleep[h] < dt THEN 0 ELSE sh_sleep[h] - dt]
    /\ sh_since' = [h \in Handlers |-> Minimum(sh_since[h] + dt, MaxSince)]
    /\ UNCHANGED <<sh_queue, sh_wpc, sh_lastp, sh_tnone, sh_spinner, sh_last,
                   sh_n, notStat>>

NextStatus ==
    \/ \E event_name \in EventTypes, data \in EventData :
          ProcessEvent(event_name, data.utterance, data.duration,
                       data.skill_id, data.exception)
    \/ \E h \in Handlers, ok \in BOOLEAN : StatusWorkerStep(h, ok)
    \/ \E h \in Handlers : StatusWorkerWake(h)
    \/ \E h \in Handlers, i \in 1 .. MaxEvents + 1 : StatusTimerExpire(h, i)
    \/ \E h \in Handlers, i \in 1 .. MaxEvents + 1, ok \in BOOLEAN :
          StatusTimerRun(h, i, ok)
    \/ \E dt \in TimeSteps : Advance(dt)

SpecStatus == Init /\ [][NextStatus]_vars

\* process_event and the workers alone, the clock standing still
NextStatusEvents ==
    \/ \E event_name \in EventTypes, data \in EventData :
          ProcessEvent(event_name, data.utterance, data.duration,
                       data.skill_id, data.exception)
    \/ \E h \in Handlers, ok \in BOOLEAN : StatusWorkerStep(h, ok)

SpecStatusEvents == Init /\ [][NextStatusEvents]_vars

(***************************************************************************)
(* C25: the downgrade to UTTERANCE_UNDETECTED.                             *)
(***************************************************************************)
\* the lifecycle events the downgrade is claimed for
Lifecycle ==
    {"WAKEWORD", "SKILL_HANDLER_START", "SKILL_HANDLER_COMPLETE",
     "UTTERANCE_HANDLED", "UTTERANCE_CANCELLED", "AUDIO_OUTPUT_START",
     "AUDIO_OUTPUT_END", "INTENT_FAILURE", "UTTERANCE_END"}

\* the items a step has put in the queue of handler h
Queued_by_step(h) ==
    SubSeq(sh_queue'[h], Len(sh_queue[h]) + 1, Len(sh_queue'[h]))

\* C25: a lifecycle event (wakeword, skill-handler-start, skill-handler-
\* complete, utterance-handled, utterance-cancelled, audio-output-start,
\* audio-output-end, intent-failure, utterance-end) that carries the
\* unknown-intent fallback skill id or an exception is handed to the
\* status handler as UTTERANCE_UNDETECTED, never as the original event.
C25_FailedLifecycleEventIsUndetected ==
    [][\A event_name \in Lifecycle, data \in EventData :
         (/\ ProcessEvent(event_name, data.utterance, data.duration,
                          data.skill_id, data.exception)
          /\ data.utterance = <<>>
          /\ data.skill_id = UNKNOWN_SKILL \/ data.exception # None)
         => /\ \E h \in Handlers : Queued_by_step(h) # <<>>
            /\ \A h \in Handlers :
                  \A i \in 1 .. Len(Queued_by_step(h)) :
                     Queued_by_step(h)[i].event = "UTTERANCE_UNDETECTED"]_vars

\* an UTTERANCE_UNDETECTED event is in the queue of the utterance handler
C25_Witness ==
    \E i \in 1 .. Len(sh_queue["utterance"]) :
        sh_queue["utterance"][i].event = "UTTERANCE_UNDETECTED"

(***************************************************************************)
(* C26: the unknown-intent fallback and the reset of the spinner.          *)
(***************************************************************************)
\* the Timer the spinner handler holds in _timer, as reset_timer left it
ArmedNow(h, timeout) ==
    \E i \in 1 .. Len(sh_timers'[h]) :
        /\ sh_timers'[h][i].ref
        /\ ~sh_timers'[h][i].fired
        /\ sh_timers'[h][i].timeout = timeout
        /\ sh_timers'[h][i].waited = 0

\* C26: a skill-handler-complete event whose skill id is the unknown-intent
\* fallback is queued as UTTERANCE_UNDETECTED (which sets the spinner to
\* 'failure') and arms a reset timer of 5 s on the spinner handler, whose
\* firing returns the spinner to 'fade-out'.
C26_UnknownIntentArmsSpinnerReset ==
    [][\A data \in EventData :
         (/\ ProcessEvent("SKILL_HANDLER_COMPLETE", data.utterance,
                          data.duration, data.skill_id, data.exception)
          /\ data.utterance = <<>>
          /\ data.skill_id = UNKNOWN_SKILL)
         => /\ Len(Queued_by_step("utterance")) = 1
            /\ Queued_by_step("utterance")[1].event = "UTTERANCE_UNDETECTED"
            /\ get_spinner_class("UTTERANCE_UNDETECTED") = "failure"
            /\ get_spinner_class(RESET_EVENT_MAP("spinner")) = "fade-out"
            /\ ArmedNow("spinner", 5)]_vars

\* the worker has handled an UTTERANCE_UNDETECTED event and the spinner
\* shows 'failure'
C26_Witness ==
    /\ sh_last.by = "worker"
    /\ sh_last.event = "UTTERANCE_UNDETECTED"
    /\ ~sh_last.raised
    /\ sh_spinner = "failure"

(***************************************************************************)
(* C27: the order and the pacing of the worker of a sub-handler.           *)
(***************************************************************************)
\* C27: within one sub-handler the queued events are handled in the order
\* they were queued, one at a time, and the handling function is invoked
\* for an event no earlier than the persistence of the preceding event
\* after the invocation for that preceding event.
C27_HandledInOrderAndPaced ==
    [][\A h \in Handlers :
         (\E ok \in BOOLEAN : StatusWorkerStep(h, ok))
         => /\ sh_queue'[h] = Tail(sh_queue[h])
            /\ sh_last'.by = "worker"
            /\ sh_last'.handler = h
            /\ sh_last'.event = Head(sh_queue[h]).event
            /\ sh_since[h] >= sh_lastp[h]]_vars

\* a worker sleeps for the persistence of the event it has handled while
\* the next event waits in its queue
C27_Witness ==
    \E h \in Handlers :
        /\ sh_wpc[h] = "sleep"
        /\ sh_sleep[h] > 0
        /\ sh_lastp[h] > 0
        /\ sh_queue[h] # <<>>

(***************************************************************************)
(* C28: superseded Timers.                                                 *)
(***************************************************************************)
\* the Timers of handler h whose wait has not ended
Pending(h) == {i \in 1 .. Len(sh_timers[h]) : ~sh_timers[h][i].fired}

C29_TimerFiringResetsHandler ==
    [][\A h \in Handlers :
         \A i \in 1 .. Len(sh_timers[h]), ok \in BOOLEAN :
            (StatusTimerRun(h, i, ok) /\ sh_timers[h][i].ref)
            => /\ sh_last'.by = "timer"
               /\ sh_last'.handler = h
               /\ sh_last'.event = RESET_EVENT_MAP(h)
               /\ sh_timestamp'[h] = -1
               /\ sh_tnone'[h]
               /\ \A j \in 1 .. Len(sh_timers'[h]) : sh_timers'[h][j].fired]_vars

\* a Timer has fired, the handling function has returned from the reset
\* event, and the timestamp and the Timer of the sub-handler are reset
C29_Witness ==
    /\ sh_last.by = "timer"
    /\ ~sh_last.raised
    /\ sh_last.event = RESET_EVENT_MAP(sh_last.handler)
    /\ sh_timestamp[sh_last.handler] = -1
    /\ sh_tnone[sh_last.handler]

(***************************************************************************)
(* C30: the pieces of an utterance and the sub-handler they are queued on. *)
(***************************************************************************)
\* the events whose utterance text process_event queues
TextEvents == {"WAKEWORD", "UTTERANCE", "UTTERANCE_START"}

\* the words of the first n queue items, in the order of the queue
RECURSIVE WordsOf(_, _)
WordsOf(items, n) ==
    IF n = 0 THEN <<>>
    ELSE WordsOf(items, n - 1) \o items[n].data[1].text[1].words

\* C30: for an event with utterance text the pieces are queued on exactly
\* one sub-handler, speech for utterance-start and utterance for wakeword
\* and utterance, in the order of the text, each with the default timeout
\* of that sub-handler and a persistence equal to the piece's share of the
\* duration, and nothing is queued on the other sub-handlers.
C30_PiecesQueuedOnOneHandler ==
    [][\A event_name \in TextEvents, data \in EventData :
         (/\ ProcessEvent(event_name, data.utterance, data.duration,
                          data.skill_id, data.exception)
          /\ data.utterance # <<>>)
         => LET h == IF event_name = "UTTERANCE_START" THEN "speech"
                     ELSE "utterance"
                text == format_utterance(data.utterance)
                d == IF data.duration # Zero THEN data.duration
                     ELSE calculate_duration(text)
                pieces == split_utterance(text, MaxLength)
                n == Len(pieces)
                Q == Queued_by_step(h)
            IN /\ n > 0
               /\ Len(Q) >= n
               /\ event_name # "WAKEWORD" => Len(Q) = n
               /\ \A i \in 1 .. n :
                     /\ Q[i].event = event_name
                     /\ Q[i].data[1].key = h
                     /\ Q[i].data[1].text = <<pieces[i]>>
                     /\ Q[i].timeout = HandlerTimeout(h)
                     /\ Q[i].persistence =
                           FloatDivInt(FloatTimesInt(d, PieceLen(pieces[i])),
                                       SumPieceLen(pieces))
               /\ WordsOf(Q, n) = text
               /\ \A g \in Handlers \ {h} : Queued_by_step(g) = <<>>]_vars

\* the two pieces of an utterance are in the queue of the speech handler,
\* one after the other
C30_Witness ==
    \E i \in 1 .. Len(sh_queue["speech"]) - 1 :
        /\ sh_queue["speech"][i].event = "UTTERANCE_START"
        /\ sh_queue["speech"][i + 1].event = "UTTERANCE_START"
        /\ sh_queue["speech"][i].data # <<>>
        /\ sh_queue["speech"][i].data # sh_queue["speech"][i + 1].data

Count(s, x) == Cardinality({i \in 1 .. Len(s) : s[i] = x})

\* C32: after deactivate_page the active page is the one whose index was
\* second in the stack of active indexes before the call, the stack holds
\* the same indexes as often as before, and with fewer than two entries the
\* call changes nothing.
C32_DeactivateResumesPrevious ==
    [][DeactivatePage
       => IF Len(pg.active_indexes) >= 2
          THEN /\ pg'.active_indexes[1] = pg.active_indexes[2]
               /\ get_active_page_id(pg')
                     = get_page_id(pg, pg.active_indexes[2])
               /\ Len(pg'.active_indexes) = Len(pg.active_indexes)
               /\ \A x \in Range(pg.active_indexes) \cup Range(pg'.active_indexes) :
                     Count(pg'.active_indexes, x) = Count(pg.active_indexes, x)
               /\ pg'.page_ids = pg.page_ids
               /\ pg'.pages = pg.pages
          ELSE pg' = pg]_vars

\* the stack of active indexes names two pages of the group, the second
\* one on top after the first was deactivated or before it is
C32_Witness ==
    /\ Len(pg.active_indexes) >= 2
    /\ pg.active_indexes[1] # pg.active_indexes[2]
    /\ get_active_page_id(pg) # None
    /\ get_page_id(pg, pg.active_indexes[2]) # None
    /\ get_active_page_id(pg) # get_page_id(pg, pg.active_indexes[2])

(***************************************************************************)
(* C33: the removal of the active page.                                    *)
(***************************************************************************)
\* the pages the indexes below the top of the stack name before the call
EarlierActive(g) ==
    {get_page_id(g, g.active_indexes[i]) : i \in 2 .. Len(g.active_indexes)}

\* C33: removing the page that is active pops the stack of active indexes:
\* afterwards the active page is a page that was active earlier and is still
\* in the group, or none, and never the removed page or a page that slid
\* into the index of the removed one.
C33_RemoveActivePopsStack ==
    [][\A position \in Positions :
         (/\ RemovePage(position)
          /\ get_active_page_id(pg) # None
          /\ get_page_id(pg, position) = get_active_page_id(pg)
          /\ get_active_page_id(pg) \in DOMAIN pg.pages)
         => /\ Len(pg'.active_indexes) < Len(pg.active_indexes)
            /\ get_active_page_id(pg') # get_active_page_id(pg)
            /\ \/ get_active_page_id(pg') = None
               \/ /\ get_active_page_id(pg') \in EarlierActive(pg)
                  /\ get_active_page_id(pg') \in Range(pg'.page_ids)]_vars

\* a group of two pages whose first page is the active one
C33_Witness ==
    /\ Len(pg.page_ids) = 2
    /\ pg.active_indexes = <<0>>
    /\ Range(pg.page_ids) \subseteq DOMAIN pg.pages

(***************************************************************************)
(* C34: the activation of a namespace.                                     *)
(***************************************************************************)
\* C34: after the activation of namespace ns (GUIManager.activate_page,
\* the caller of activate_namespace), ns is at the front of the list of
\* active namespaces and occurs in it once, the other namespaces keep their
\* relative order, and the catalog has a PageGroup for ns, created if it
\* was absent.
C34_ActivatedNamespaceInFrontWithGroup ==
    [][\A namespace \in Namespaces, id \in GuiPositions :
         GuiActivatePage(namespace, id)
         => /\ namespaces' # <<>>
            /\ namespaces'[1] = namespace
            /\ Count(namespaces', namespace) = 1
            /\ Tail(namespaces')
                  = SelectSeq(namespaces, LAMBDA n : n # namespace)
            /\ namespace \in DOMAIN catalog']_vars

\* a namespace that was not at the front has been moved there and has its
\* PageGroup
C34_Witness ==
    /\ Len(namespaces) = 2
    /\ namespaces[1] \in DOMAIN catalog
    /\ catalog[namespaces[1]].active_indexes # <<>>
    /\ namespaces[2] \in DOMAIN catalog

(***************************************************************************)
(* The active skills: mycroft.session.list.insert and .remove on the       *)
(* namespace mycroft.system.active_skills (gui_client.py, gui_manager.py). *)
(***************************************************************************)
notSkill == <<nq, delivered, clients, raceVars, pgVars, sessVars, showVars,
             clientVars, splitVars, statVars>>

\* the skill ids of the frames; None for a frame without data
Skills == Namespaces \cup {None}

\* GUIClient and its GUIManager, as the two handlers use them
TheSkills == [active_skills |-> active_skills, g |-> TheGUIManager]

\* handle_session_list_insert for mycroft.system.active_skills
handle_session_list_insert(c, skill, position) ==
    [active_skills |-> <<skill>> \o c.active_skills,
     g |-> IF skill # None THEN insert_namespace(c.g, skill, position)
           ELSE c.g]

\* GUIManager.remove_namespace.  For the active namespace it calls
\* self.close(namespace=namespace), which calls renderer.close(namespace=...,
\* page_id=None) on Renderer.close(route): TypeError as written (glued =
\* FALSE), the close of the page on top of the stack as the signature asks
\* for it (glued = TRUE).
remove_namespace(g, r, namespace, glued) ==
    LET removed == [namespaces |-> IF namespace \in Range(g.namespaces)
                                   THEN ListRemove(g.namespaces, namespace)
                                   ELSE g.namespaces,
                    catalog |-> IF namespace \in DOMAIN g.catalog
                                THEN MapDel(g.catalog, namespace)
                                ELSE g.catalog]
    IN IF namespace \in Range(g.namespaces) /\ namespace = g.namespaces[1]
       THEN IF ~glued
            THEN [g |-> g, r |-> r, data |-> None, exc |-> "TypeError"]
            ELSE LET c == Renderer_close(r, None)
                 IN IF c.updates
                    THEN IF update_root_exc(c.r) # None
                         THEN [g |-> g, r |-> attach_root(c.r), data |-> None,
                               exc |-> update_root_exc(c.r)]
                         ELSE [g |-> removed, r |-> attach_root(c.r),
                               data |-> update_root(c.r), exc |-> None]
                    ELSE [g |-> removed, r |-> c.r, data |-> None,
                          exc |-> None]
       ELSE [g |-> removed, r |-> r, data |-> None, exc |-> None]

\* handle_session_list_remove for mycroft.system.active_skills: the skill
\* is popped before remove_namespace is called, and only IndexError is
\* caught
handle_session_list_remove(c, r, position, glued) ==
    IF position >= Len(c.active_skills)
    THEN [c |-> c, r |-> r, data |-> None, exc |-> None]
    ELSE LET skill == c.active_skills[position + 1]
             rn == remove_namespace(c.g, r, skill, glued)
         IN [c |-> [active_skills |-> RemoveAt(c.active_skills, position + 1),
                    g |-> rn.g],
             r |-> rn.r, data |-> rn.data, exc |-> rn.exc]

SkillListInsert(skill, position) ==
    /\ Len(active_skills) < MaxSkills
    /\ LET c == handle_session_list_insert(TheSkills, skill, position) IN
       /\ active_skills' = c.active_skills
       /\ SetGUIManager(c.g)
    /\ call' = NoCall
    /\ UNCHANGED <<listeners, queues, published, rendVars, notSkill>>

SkillListRemove(position, glued) ==
    /\ Len(published) < MaxFrames
    /\ LET res == handle_session_list_remove(TheSkills, TheRenderer, position,
                                             glued) IN
       /\ active_skills' = res.c.active_skills
       /\ SetGUIManager(res.c.g)
       /\ SetRenderer(res.r)
       /\ update(res.data, "root")
    /\ call' = NoCall
    /\ UNCHANGED notSkill

NextSkills ==
    \/ \E skill \in Skills, position \in GuiPositions :
          SkillListInsert(skill, position)
    \/ \E position \in GuiPositions, glued \in BOOLEAN :
          SkillListRemove(position, glued)
    \/ \E c \in GuiClients : RegisterClient(c)
    \/ \E c \in GuiClients : Deregister(c)

SpecSkills == Init /\ [][NextSkills]_vars

(***************************************************************************)
(* C35: session.list.remove against session.list.insert.                   *)
(***************************************************************************)
\* C35: on the active-skills namespace, inserting skill s at position p and
\* then removing at position p restores the client's stack of active
\* skills and the coordinator's list of namespaces and catalog, and after
\* any sequence of such inserts and removes the two lists name the same
\* skills.
C35_RemoveUndoesInsert ==
    /\ Range(active_skills) = Range(namespaces)
    /\ \A skill \in Namespaces, position \in GuiPositions, glued \in BOOLEAN :
          Len(active_skills) < MaxSkills
          => LET inserted == handle_session_list_insert(TheSkills, skill,
                                                        position)
                 removed == handle_session_list_remove(inserted, TheRenderer,
                                                       position, glued)
             IN /\ removed.exc = None
                /\ removed.c.active_skills = active_skills
                /\ removed.c.g = TheGUIManager

\* two skills are active, in the client's stack and in the coordinator's
\* list
C35_Witness ==
    /\ Len(active_skills) = 2
    /\ Len(namespaces) = 2
    /\ Range(active_skills) = Range(namespaces)

(***************************************************************************)
(* C36: concurrent use of the subscriber list.                             *)
(***************************************************************************)
\* C36: when two Sends run concurrently and both find the queue of the same
\* subscriber full, the subscriber is removed once and neither Send fails;
\* a Listen that runs concurrently with a Send loses no subscriber.
C36_ConcurrentSendsRemoveOnce ==
    [][/\ \A t \in Publishers :
             RaceRemove(t)
             => /\ ~sraised'
                /\ scur[t] \notin Range(listeners')
                /\ spc'[t] = "iter"
       /\ Listen
             => /\ Len(listeners') = Len(listeners) + 1
                /\ \A q \in Range(listeners) : q \in Range(listeners')]_vars

\* two Sends have both found the queue of the same subscriber full and are
\* about to remove it
C36_Witness ==
    /\ spc["bus"] = "remove"
    /\ spc["status"] = "remove"
    /\ scur["bus"] = scur["status"]

(***************************************************************************)
(* C37: a ping against a cycle of the sweeper.                             *)
(***************************************************************************)
\* C37: no live session is evicted: under every interleaving of a ping with
\* a cycle of the sweeper, the sweeper deletes the entry of a session or
\* deregisters it only when the session's last ping, at that moment, is
\* older than ping_period + 3 * check_wait.
C37_LiveSessionNotEvicted ==
    [][/\ (swpc = "delete" /\ swpc' = "wait")
          => \A i \in 1 .. Len(sessions) :
                sessions[i].id \notin SessIds(sessions')
                => expired(now, sessions[i].t)
       /\ swpc = "scan"
          => \A c \in Range(clients) \ Range(clients') :
                \E i \in 1 .. Len(sessions) :
                   sessions[i].id = c /\ expired(now, sessions[i].t)]_vars

\* the sweeper is about to delete the entry of a session that has pinged
\* since the scan found it expired
C37_Witness ==
    /\ swpc = "delete"
    /\ \E i \in 1 .. Len(sessions) :
          /\ sessions[i].id \in Range(disconnected)
          /\ ~expired(now, sessions[i].t)

(***************************************************************************)
(* C38: the Renderer's navigation calls and the reserved status page.      *)
(***************************************************************************)
\* Renderer.go_to up to its call of update_root
Renderer_go_to(r, route) ==
    IF route \notin Range(r.page_stack)
    THEN [r |-> r, updates |-> FALSE]
    ELSE [r |-> [r EXCEPT !.page_stack = Append(ListRemove(@, route), route)],
          updates |-> TRUE]

\* Renderer.go_back with its default level -1, up to its call of
\* update_root: list.pop(-2) raises IndexError on a stack of fewer than two
\* routes
Renderer_go_back(r) ==
    IF Len(r.page_stack) < 2
    THEN [r |-> r, updates |-> FALSE]
    ELSE LET index == Len(r.page_stack) - 1 IN
         [r |-> [r EXCEPT !.page_stack =
                      Append(RemoveAt(@, index), r.page_stack[index])],
          updates |-> TRUE]

\* Renderer.remove_from_page_group: the route leaves the stack and the
\* group map; PageGroup.remove_page of renderer.py removes nothing for a
\* route the group holds (its test is "route not in self.routes")
remove_from_page_group(r, route) ==
    [r EXCEPT !.page_stack = IF route \in Range(@) THEN ListRemove(@, route) ELSE @,
              !.group_map = IF route \in DOMAIN @ THEN MapDel(@, route) ELSE @]

\* Renderer.remove: the Renderer it leaves and the data its close hands to
\* update.  _page_stack[-1] raises IndexError on an empty stack, and an
\* exception of update_root ends the call before remove_from_page_group.
Renderer_remove(r, route) ==
    IF r.page_stack = <<>>
    THEN [r |-> r, data |-> None]
    ELSE IF route = Last(r.page_stack)
    THEN LET c == Renderer_close(r, route).r IN
         IF update_root_exc(c) # None
         THEN [r |-> attach_root(c), data |-> None]
         ELSE [r |-> remove_from_page_group(attach_root(c), route),
               data |-> update_root(c)]
    ELSE [r |-> remove_from_page_group(r, route), data |-> None]

\* the Renderer a navigation call leaves and the data it hands to update:
\* it goes on to update_root when nav.updates
Navigated(nav) == IF nav.updates THEN attach_root(nav.r) ELSE nav.r
NavigatedData(nav) == IF nav.updates THEN update_root(nav.r) ELSE None

RendererClose(route) ==
    /\ Len(published) < MaxFrames
    /\ SetRenderer(Navigated(Renderer_close(TheRenderer, route)))
    /\ update(NavigatedData(Renderer_close(TheRenderer, route)), "root")
    /\ UNCHANGED notRend

RendererGoTo(route) ==
    /\ Len(published) < MaxFrames
    /\ SetRenderer(Navigated(Renderer_go_to(TheRenderer, route)))
    /\ update(NavigatedData(Renderer_go_to(TheRenderer, route)), "root")
    /\ UNCHANGED notRend

RendererGoBack ==
    /\ Len(published) < MaxFrames
    /\ SetRenderer(Navigated(Renderer_go_back(TheRenderer)))
    /\ update(NavigatedData(Renderer_go_back(TheRenderer)), "root")
    /\ UNCHANGED notRend

RendererRemove(route) ==
    /\ Len(published) < MaxFrames
    /\ LET rm == Renderer_remove(TheRenderer, route) IN
       /\ SetRenderer(rm.r)
       /\ update(rm.data, "root")
    /\ UNCHANGED notRend

\* the routes the callers of the Renderer hand in
NavRoutes == {Route(page_id) : page_id \in RendererPageIds}

NextRendererNav ==
    \/ \E namespace \in RendererNamespaces, page_id \in RendererPageIds,
          position \in RendererPositions :
          RendererInsert(namespace, page_id, position)
    \/ \E namespace \in RendererNamespaces, page_id \in RendererPageIds :
          RendererShow(namespace, page_id)
    \/ \E route \in NavRoutes \cup {None} : RendererClose(route)
    \/ \E route \in NavRoutes : RendererGoTo(route)
    \/ RendererGoBack
    \/ \E route \in NavRoutes : RendererRemove(route)
    \/ \E c \in GuiClients : RegisterClient(c)

SpecRendererNav == Init /\ [][NextRendererNav]_vars

\* C38: the reserved status page is never displayed in the root container:
\* after every sequence of insert, show, close, go_to, go_back and remove
\* calls with the routes of ordinary pages, the root container does not hold
\* the status bar's page and no root frame with it has been published.
C38_StatusPageNeverInRoot ==
    /\ "status" \notin Range(root_children)
    /\ \A i \in 1 .. Len(published) :
          ~(published[i].event = "root" /\ published[i].data = to_string("status"))

\* a navigation call has run update_root with a browser connected
C38_Witness ==
    /\ root_children # <<>>
    /\ published # <<>>

(***************************************************************************)
(* C39: insertions and moves against the active page.                      *)
(***************************************************************************)
\* C39: inserting or moving pages does not change which page is active:
\* after every insert_page or move_page call that returns without an
\* exception on a group with an active page (neither call removes a page),
\* get_active_page_id returns the page id it returned before the call.
C39_InsertMoveKeepActivePage ==
    [][(/\ get_active_page_id(pg) # None
        /\ pgExc' = None
        /\ \/ \E page_id \in PageIds, position \in Positions,
                 resolved \in BOOLEAN, built \in BOOLEAN :
                 InsertPage(page_id, position, resolved, built)
           \/ \E from \in Positions, to \in Positions : MovePage(from, to))
       => get_active_page_id(pg') = get_active_page_id(pg)]_vars

\* a group of two pages, one of them active
C39_Witness ==
    /\ Len(pg.page_ids) = 2
    /\ pg.active_indexes # <<>>
    /\ get_active_page_id(pg) # None

====
